---- MODULE Spec2Model ----
(***************************************************************************)
(* Verification model of the Colombian street-address geocoder and of its  *)
(* GeoJSON ingester.                                                       *)
(*                                                                         *)
(* Strings the program inspects character by character (addresses, house  *)
(* numbers, street names) are sequences of one-character strings.  Strings *)
(* the program only compares for equality (city, region, fingerprint) are  *)
(* TLA+ strings.  An optional value is a sequence of length at most one:   *)
(* None is << >> and Some(x) is << x >>.                                   *)
(***************************************************************************)
EXTENDS Integers, Sequences, FiniteSets, TLC

VARIABLES
    store,        \* the addresses table: a sequence of rows, the index is the id
    config,       \* GeocodingConfig of the service
    call,         \* batch_geocode: its arguments default_region, offset_distance
    addresses,    \* batch_geocode: the input list of requests
    results,      \* batch_geocode: the list of results built so far
    pc,           \* where the service is: "idle" between two calls of the loop,
                  \* a phase of geocode, "DONE" when geocode returns,
                  \* "RETURNED" when batch_geocode has returned, "RAISED"
                  \* when an exception has left geocode
    req,          \* geocode: the arguments of the current call
    components,   \* geocode: Option(AddressComponents)
    candidates,   \* geocode: the list returned by search_streets
    segment,      \* geocode: Option(StreetSegment)
    centroid,     \* geocode: Option(<<avg_lat, avg_lon>>) of the fallback
    interp,       \* geocode: Option(InterpolationResult)
    point,        \* geocode: Option(<<lat, lon>>) of generate_coordinates
    result,       \* geocode: Option(GeocodingResult) returned by the call
    phases,       \* history: the phases the current call has run, in order
    queries,      \* history: number of statements the current call has executed
    exc,          \* history: Option(text) of the exception raised in the call
    job,          \* import_geojson: per ingester, its arguments file (a list of
                  \* lines), batch_size and skip_lines
    ipc,          \* per ingester: "off", "reading" (at the head of the loop),
                  \* "executing" (in session.execute), "finished"
    line_count,   \* read_geojson_batch: per ingester, lines consumed so far
    batch,        \* per ingester: the batch the loop is handling
    pending,      \* per ingester: the writes of its open transaction
    batch_count,  \* import_geojson: per ingester, batches yielded so far
    stats,        \* per ingester: its ImportStats
    runs,         \* per ingester: the number of the run of import_geojson
    locks,        \* the store: per fingerprint, the ingester whose open
                  \* transaction has written it, 0 if none
    checkpoint,   \* Option(number): the content of import_checkpoint.txt
    faults,       \* history: store failures not caused by the data, so far
    runStart,     \* history: per ingester, the store as its run started
    history,      \* history: per ingester, the batches of its run so far,
                  \* each with the way its transaction ended
    lastCommitted, \* history: per fingerprint, Option(row) of the last
                  \* committed upsert of that fingerprint
    exit_status   \* main: per ingester, Option of the status its process
                  \* exited with and of what ended it

\* the variables of the geocoding service, the store apart
gvars == <<config, call, addresses, results, pc, req, components, candidates,
           segment, centroid, interp, point, result, phases, queries, exc>>

\* the variables of the ingesters, the store apart
ivars == <<job, ipc, line_count, batch, pending, batch_count, stats, runs, locks,
           checkpoint, faults, runStart, history, lastCommitted, exit_status>>

----------------------------------------------------------------------------
(* Optional values and small helpers                                       *)

None == << >>

Some(x) == << x >>

IsNone(o) == o = << >>

IsSome(o) == o # << >>

Get(o) == o[1]

Min(S) == CHOOSE x \in S : \A y \in S : x <= y

Max(S) == CHOOSE x \in S : \A y \in S : x >= y

Abs(n) == IF n < 0 THEN -n ELSE n

----------------------------------------------------------------------------
(* Characters                                                              *)

Digits == <<"0", "1", "2", "3", "4", "5", "6", "7", "8", "9">>

LowerCase == <<"a", "b", "c", "d", "e", "f", "g", "h", "i", "j", "k", "l", "m",
               "n", "o", "p", "q", "r", "s", "t", "u", "v", "w", "x", "y", "z">>

UpperCase == <<"A", "B", "C", "D", "E", "F", "G", "H", "I", "J", "K", "L", "M",
               "N", "O", "P", "Q", "R", "S", "T", "U", "V", "W", "X", "Y", "Z">>

DigitSet == {Digits[i] : i \in 1..10}

LowerSet == {LowerCase[i] : i \in 1..26}

UpperSet == {UpperCase[i] : i \in 1..26}

IsDigit(c) == c \in DigitSet

DigitVal(c) == (CHOOSE i \in 1..10 : Digits[i] = c) - 1

IsLower(c) == c \in LowerSet

IsUpper(c) == c \in UpperSet

\* [A-Z] under re.IGNORECASE
IsLetter(c) == IsUpper(c) \/ IsLower(c)

\* \s
IsSpace(c) == c = " "

\* str.upper() on one character
UpperChar(c) == IF IsLower(c) THEN UpperCase[CHOOSE i \in 1..26 : LowerCase[i] = c] ELSE c

\* str.upper()
Upper(s) == [i \in 1..Len(s) |-> UpperChar(s[i])]

\* s[i..j-1] (Python s[i-1:j-1])
Slice(s, i, j) == SubSeq(s, i, j - 1)

\* first position >= i holding a non-digit, Len(s)+1 if none: the end of \d*
DigitsEnd(s, i) ==
    LET stop == {j \in i..Len(s) : ~IsDigit(s[j])}
    IN  IF stop = {} THEN Len(s) + 1 ELSE Min(stop)

\* first position >= i holding a non-space, Len(s)+1 if none: the end of \s*
SpacesEnd(s, i) ==
    LET stop == {j \in i..Len(s) : ~IsSpace(s[j])}
    IN  IF stop = {} THEN Len(s) + 1 ELSE Min(stop)

\* the character at position i, or "" past the end
At(s, i) == IF i >= 1 /\ i <= Len(s) THEN s[i] ELSE ""

----------------------------------------------------------------------------
(* Phase 1: AddressParser                                                  *)

\* the alternatives of the street_type group of PATTERN, in the order the
\* regular expression tries them
STREET_TYPE_PATTERN ==
    <<<<"A", "U", "T", "O", "P", "I", "S", "T", "A">>,
      <<"T", "R", "A", "N", "S", "V", "E", "R", "S", "A", "L">>,
      <<"C", "I", "R", "C", "U", "L", "A", "R">>,
      <<"D", "I", "A", "G", "O", "N", "A", "L">>,
      <<"A", "V", "E", "N", "I", "D", "A">>,
      <<"C", "A", "R", "R", "E", "R", "A">>,
      <<"C", "A", "L", "L", "E">>,
      <<"A", "U", "T">>,
      <<"C", "I", "R">>,
      <<"T", "V">>,
      <<"D", "G">>,
      <<"A", "V">>,
      <<"K", "R">>,
      <<"C", "R">>,
      <<"C", "L">>,
      <<"C", "A">>>>

\* the dict of constants.py: <<key, value>> pairs
STREET_TYPE_ABBREVIATIONS ==
    <<<<<<"C", "A", "L", "L", "E">>, <<"C", "L">>>>,
      <<<<"C", "A", "R", "R", "E", "R", "A">>, <<"K", "R">>>>,
      <<<<"A", "V", "E", "N", "I", "D", "A">>, <<"A", "V">>>>,
      <<<<"D", "I", "A", "G", "O", "N", "A", "L">>, <<"D", "G">>>>,
      <<<<"T", "R", "A", "N", "S", "V", "E", "R", "S", "A", "L">>, <<"T", "V">>>>,
      <<<<"C", "I", "R", "C", "U", "L", "A", "R">>, <<"C", "I", "R">>>>,
      <<<<"A", "U", "T", "O", "P", "I", "S", "T", "A">>, <<"A", "U", "T">>>>,
      <<<<"V", "I", "A">>, <<"V", "I", "A">>>>,
      <<<<"C", "R">>, <<"K", "R">>>>,
      <<<<"C", "A">>, <<"C", "L">>>>,
      <<<<"A", "V">>, <<"A", "V">>>>,
      <<<<"C", "L">>, <<"C", "L">>>>,
      <<<<"K", "R">>, <<"K", "R">>>>,
      <<<<"D", "G">>, <<"D", "G">>>>,
      <<<<"T", "V">>, <<"T", "V">>>>>>

\* the literal lit (upper case) is at position i of s, letter case ignored
LiteralAt(s, i, lit) ==
    /\ i + Len(lit) - 1 <= Len(s)
    /\ \A k \in 1..Len(lit) : UpperChar(s[i + k - 1]) = lit[k]

\* (?P<street_name>\d+[A-Z]?) at position p: the positions just after the
\* token, in the order the greedy matcher tries them (all digits and the
\* letter, all digits, then one digit fewer at a time)
NameEnds(s, p) ==
    LET e == DigitsEnd(s, p)
        n == e - p
    IN  IF n = 0 THEN << >>
        ELSE (IF IsLetter(At(s, e)) THEN <<e + 1>> ELSE << >>)
             \o [k \in 1..n |-> e - k + 1]

\* \s*#?\s* from position q, then the first digit of number_prefix:
\* the position of that digit, 0 when the text there is not a digit
PrefixStart(s, q) ==
    LET r1 == SpacesEnd(s, q)
        r2 == IF At(s, r1) = "#" THEN r1 + 1 ELSE r1
        r3 == SpacesEnd(s, r2)
    IN  IF IsDigit(At(s, r3)) THEN r3 ELSE 0

\* the groups captured once street_type (alternative t at position i) and
\* street_name (ending before q) are fixed and number_prefix starts at r
Groups(s, i, t, p, q, r) ==
    LET pe   == DigitsEnd(s, r)
        pend == IF IsLetter(At(s, pe)) THEN pe + 1 ELSE pe
        t1   == SpacesEnd(s, pend)
        t2   == IF At(s, t1) = "-" THEN t1 + 1 ELSE t1
        t3   == SpacesEnd(s, t2)
        se   == DigitsEnd(s, t3)
    IN  [street_type   |-> Slice(s, i, i + Len(STREET_TYPE_PATTERN[t])),
         street_name   |-> Slice(s, p, q),
         number_prefix |-> Slice(s, r, pend),
         number_suffix |-> IF se > t3 THEN Some(Slice(s, t3, se)) ELSE None]

\* PATTERN matched at position i with alternative t of street_type:
\* Option(groups)
MatchWith(s, i, t) ==
    IF ~LiteralAt(s, i, STREET_TYPE_PATTERN[t]) THEN None
    ELSE LET p    == SpacesEnd(s, i + Len(STREET_TYPE_PATTERN[t]))
             ends == NameEnds(s, p)
             ok   == {k \in 1..Len(ends) : PrefixStart(s, ends[k]) # 0}
         IN  IF ok = {} THEN None
             ELSE LET q == ends[Min(ok)]
                  IN  Some(Groups(s, i, t, p, q, PrefixStart(s, q)))

\* PATTERN matched at position i: the first alternative that leads to a match
MatchAt(s, i) ==
    LET ok == {t \in 1..Len(STREET_TYPE_PATTERN) : IsSome(MatchWith(s, i, t))}
    IN  IF ok = {} THEN None ELSE MatchWith(s, i, Min(ok))

\* PATTERN.search(s): the leftmost match (every alternative of street_type
\* starts with a letter, so no match starts at a digit)
PatternSearch(s) ==
    LET ok == {i \in 1..Len(s) : ~IsDigit(s[i]) /\ IsSome(MatchAt(s, i))}
    IN  IF ok = {} THEN None ELSE MatchAt(s, Min(ok))

\* AddressParser._normalize_street_type
NormalizeStreetType(street_type) ==
    LET up   == Upper(street_type)
        keys == {k \in 1..Len(STREET_TYPE_ABBREVIATIONS) :
                    STREET_TYPE_ABBREVIATIONS[k][1] = up}
    IN  IF keys # {} THEN STREET_TYPE_ABBREVIATIONS[Min(keys)][2] ELSE up

\* AddressParser.parse once PATTERN.search has returned m
ParseMatch(address, m) ==
    IF IsNone(m) THEN None
    ELSE Some([street_type   |-> NormalizeStreetType(Get(m).street_type),
               street_name   |-> Upper(Get(m).street_name),
               number_prefix |-> Upper(Get(m).number_prefix),
               number_suffix |-> IF IsSome(Get(m).number_suffix)
                                 THEN Some(Upper(Get(Get(m).number_suffix)))
                                 ELSE None,
               raw_address   |-> Get(address)])

\* AddressParser.parse: address is Option(string); Option(AddressComponents)
Parse(address) ==
    IF IsNone(address) \/ Get(address) = << >> THEN None
    ELSE ParseMatch(address, PatternSearch(Get(address)))

\* AddressComponents.full_street_name: f"{street_type} {street_name}"
FullStreetName(c) == c.street_type \o <<" ">> \o c.street_name

----------------------------------------------------------------------------
(* Number strings (interpolator.py)                                        *)

\* int() refuses a digit string longer than this with ValueError (CPython's
\* integer string conversion length limit, sys.int_info.default_max_str_digits)
INT_MAX_STR_DIGITS == 4300

\* the value of a string of decimal digits
RECURSIVE IntOfDigits(_)
IntOfDigits(ds) ==
    IF Len(ds) = 0 THEN 0
    ELSE 10 * IntOfDigits(SubSeq(ds, 1, Len(ds) - 1)) + DigitVal(ds[Len(ds)])

\* ds without its leading zeros
Significant(ds) ==
    IF {i \in 1..Len(ds) : ds[i] # "0"} = {} THEN << >>
    ELSE SubSeq(ds, Min({i \in 1..Len(ds) : ds[i] # "0"}), Len(ds))

\* The integers of the store and of the segments have at most EXACT_DIGITS
\* digits and are kept by value.  A longer integer is kept by its digits;
\* its val is HUGE plus its last digit, which is above every number of the
\* store and has the parity of the integer.
EXACT_DIGITS == 8

HUGE == 100000000

\* int(ds): [ok |-> FALSE] stands for ValueError
PyInt(ds) ==
    IF Len(ds) > INT_MAX_STR_DIGITS THEN [ok |-> FALSE, val |-> 0, digits |-> << >>]
    ELSE IF Len(Significant(ds)) > EXACT_DIGITS
    THEN [ok |-> TRUE, val |-> HUGE + DigitVal(ds[Len(ds)]), digits |-> Significant(ds)]
    ELSE [ok |-> TRUE, val |-> IntOfDigits(ds), digits |-> Significant(ds)]

\* the EXACT_DIGITS digits of n < HUGE, zeros in front
PadDigits(n) == [i \in 1..EXACT_DIGITS |-> Digits[((n \div (10 ^ (EXACT_DIGITS - i))) % 10) + 1]]

\* the digits of the integer of ds, minus one (ds is not zero): the last
\* digit that is not 0 goes down by one and the zeros after it become 9
LastNonZero(ds) == Max({i \in 1..Len(ds) : ds[i] # "0"})

Decrement(ds) ==
    [i \in 1..Len(ds) |-> IF i < LastNonZero(ds) THEN ds[i]
                          ELSE IF i = LastNonZero(ds) THEN Digits[DigitVal(ds[i])]
                          ELSE "9"]

\* the digits of the integer of ds minus n, for ds of more than EXACT_DIGITS
\* digits without leading zero and 0 <= n < HUGE
MinusSmall(ds, n) ==
    IF IntOfDigits(SubSeq(ds, Len(ds) - EXACT_DIGITS + 1, Len(ds))) >= n
    THEN SubSeq(ds, 1, Len(ds) - EXACT_DIGITS)
         \o PadDigits(IntOfDigits(SubSeq(ds, Len(ds) - EXACT_DIGITS + 1, Len(ds))) - n)
    ELSE Decrement(SubSeq(ds, 1, Len(ds) - EXACT_DIGITS))
         \o PadDigits(IntOfDigits(SubSeq(ds, Len(ds) - EXACT_DIGITS + 1, Len(ds))) + HUGE - n)

\* the long division by d of the digit ds[i] after the remainder r
DivideDigit(ds, i, r, d) ==
    [q |-> <<Digits[((r * 10 + DigitVal(ds[i])) \div d) + 1]>>, r |-> (r * 10 + DigitVal(ds[i])) % d]

\* the quotient digits of two consecutive stretches put together
DivideJoin(left, right) == [q |-> left.q \o right.q, r |-> right.r]

\* the long division by d, 0 < d < HUGE, of the digits ds[lo..hi] after
\* the remainder r < d: the digits of the quotient and the new remainder.
\* The stretch is divided half by half, the second half after the remainder
\* of the first.
RECURSIVE DivideStretch(_, _, _, _, _)
RECURSIVE DivideSecondHalf(_, _, _, _, _)
DivideStretch(ds, lo, hi, r, d) ==
    IF lo > hi THEN [q |-> << >>, r |-> r]
    ELSE IF lo = hi THEN DivideDigit(ds, lo, r, d)
    ELSE DivideSecondHalf(ds, lo, hi, DivideStretch(ds, lo, (lo + hi) \div 2, r, d), d)

DivideSecondHalf(ds, lo, hi, left, d) ==
    DivideJoin(left, DivideStretch(ds, ((lo + hi) \div 2) + 1, hi, left.r, d))

LongDivide(ds, d) == DivideStretch(ds, 1, Len(ds), 0, d)

\* a >= b for integers given by their digits without leading zeros
DigitsAtLeast(a, b) ==
    \/ Len(a) > Len(b)
    \/ /\ Len(a) = Len(b)
       /\ \/ a = b
          \/ a # b /\ DigitVal(a[Min({i \in 1..Len(a) : a[i] # b[i]})]) > DigitVal(b[Min({i \in 1..Len(a) : a[i] # b[i]})])

\* 2^1024 - 2^970: a quotient of two integers from here on rounds to a float
\* above the largest one, and the division raises OverflowError
FLOAT_OVERFLOW ==
    <<"1", "7", "9", "7", "6", "9", "3", "1", "3", "4", "8", "6", "2", "3", "1", "5", "8", "0", "7", "9", "3", "7", "2", "8", "9", "7", "1", "4", "0", "5", "3", "0", "3", "4", "1", "5", "0", "7", "9", "9", "3", "4", "1", "3", "2", "7", "1", "0", "0", "3", "7", "8", "2", "6", "9", "3", "6", "1", "7", "3", "7", "7", "8", "9", "8", "0", "4", "4", "4", "9", "6", "8", "2", "9", "2", "7", "6", "4", "7", "5", "0", "9", "4", "6", "6", "4", "9", "0", "1", "7", "9", "7", "7", "5", "8", "7", "2", "0", "7", "0", "9", "6", "3", "3", "0", "2", "8", "6", "4", "1", "6", "6", "9", "2", "8", "8", "7", "9", "1", "0", "9", "4", "6", "5", "5", "5", "5", "4", "7", "8", "5", "1", "9", "4", "0", "4", "0", "2", "6", "3", "0", "6", "5", "7", "4", "8", "8", "6", "7", "1", "5", "0", "5", "8", "2", "0", "6", "8", "1", "9", "0", "8", "9", "0", "2", "0", "0", "0", "7", "0", "8", "3", "8", "3", "6", "7", "6", "2", "7", "3", "8", "5", "4", "8", "4", "5", "8", "1", "7", "7", "1", "1", "5", "3", "1", "7", "6", "4", "4", "7", "5", "7", "3", "0", "2", "7", "0", "0", "6", "9", "8", "5", "5", "5", "7", "1", "3", "6", "6", "9", "5", "9", "6", "2", "2", "8", "4", "2", "9", "1", "4", "8", "1", "9", "8", "6", "0", "8", "3", "4", "9", "3", "6", "4", "7", "5", "2", "9", "2", "7", "1", "9", "0", "7", "4", "1", "6", "8", "4", "4", "4", "3", "6", "5", "5", "1", "0", "7", "0", "4", "3", "4", "2", "7", "1", "1", "5", "5", "9", "6", "9", "9", "5", "0", "8", "0", "9", "3", "0", "4", "2", "8", "8", "0", "1", "7", "7", "9", "0", "4", "1", "7", "4", "4", "9", "7", "7", "9", "2">>

\* (t - start_num) / (end_num - start_num) raises OverflowError: t has more
\* than EXACT_DIGITS digits, start_num and end_num are below HUGE
QuotientOverflows(t_digits, start_num, end_num) ==
    /\ end_num # start_num
    /\ Len(t_digits) >= Len(FLOAT_OVERFLOW)
    /\ DigitsAtLeast(Significant(LongDivide(MinusSmall(t_digits, start_num), Abs(end_num - start_num)).q),
                     FLOAT_OVERFLOW)

\* re.search(r'\d+', s): the first run of digits of s, << >> if s has none
FirstDigitRun(s) ==
    LET starts == {j \in 1..Len(s) : IsDigit(s[j])}
    IN  IF starts = {} THEN << >>
        ELSE Slice(s, Min(starts), DigitsEnd(s, Min(starts)))

\* PositionInterpolator.parse_number_simple; number_str is Option(string)
\* (str(None) is "None" and has no digit)
ParseNumberSimple(number_str) ==
    LET run == IF IsNone(number_str) THEN << >> ELSE FirstDigitRun(Get(number_str))
    IN  IF run = << >> THEN [ok |-> TRUE, val |-> 0, digits |-> << >>] ELSE PyInt(run)

\* PositionInterpolator._parse_number: all digit groups concatenated
ParseNumber(number_str) ==
    IF IsNone(number_str) \/ Get(number_str) = << >> THEN [ok |-> TRUE, val |-> 0, digits |-> << >>]
    ELSE LET digits == SelectSeq(Get(number_str), IsDigit)
         IN  IF digits = << >> THEN [ok |-> TRUE, val |-> 0, digits |-> << >>] ELSE PyInt(digits)

----------------------------------------------------------------------------
(* Rationals stand for the floats of the interpolation: [num, den] in      *)
(* lowest terms with den > 0                                               *)

RECURSIVE Gcd(_, _)
Gcd(a, b) == IF b = 0 THEN a ELSE Gcd(b, a % b)

Rat(n, d) ==
    LET s == IF d < 0 THEN -1 ELSE 1
        g == Gcd(Abs(n), Abs(d))
    IN  [num |-> (s * n) \div g, den |-> (s * d) \div g]

RatLeq(a, b) == a.num * b.den <= b.num * a.den

RatMin(a, b) == IF RatLeq(a, b) THEN a ELSE b

RatMax(a, b) == IF RatLeq(b, a) THEN a ELSE b

\* utils.clamp: max(min_value, min(max_value, value))
Clamp(value, min_value, max_value) == RatMax(min_value, RatMin(max_value, value))

----------------------------------------------------------------------------
(* Phase 2: StreetSearcher.search_streets                                  *)

\* the cap of both queries
SEARCH_LIMIT == 100

\* characters in code point order
CharOrder == <<" ", "#", "-">> \o Digits \o UpperCase \o LowerCase

CharRank(c) ==
    IF \E i \in 1..Len(CharOrder) : CharOrder[i] = c
    THEN CHOOSE i \in 1..Len(CharOrder) : CharOrder[i] = c
    ELSE 0

\* a < b for strings, by code point
StrLess(a, b) ==
    \E k \in 1..(Len(b)) :
        /\ \A j \in 1..(k - 1) : j <= Len(a) /\ a[j] = b[j]
        /\ \/ k = Len(a) + 1
           \/ k <= Len(a) /\ CharRank(a[k]) < CharRank(b[k])

\* ORDER BY number ASC: NULL sorts last
NumberLess(a, b) ==
    IF IsNone(a) THEN FALSE
    ELSE IF IsNone(b) THEN TRUE
    ELSE StrLess(Get(a), Get(b))

\* name occurs in street, letter case ignored (street ILIKE '%name%')
ILikeContains(street, name) ==
    \E i \in 1..(Len(street) - Len(name) + 1) :
        \A k \in 1..Len(name) : UpperChar(street[i + k - 1]) = UpperChar(name[k])

\* the WHERE clause of tier 1
ExactWhere(row, street_name, city, region) ==
    /\ row.city = Some(city)
    /\ row.street = Some(street_name)
    /\ row.region = Some(region)
    /\ IsSome(row.latitude)
    /\ IsSome(row.longitude)

\* the WHERE clause of tier 2
FuzzyWhere(row, street_name, city, region) ==
    /\ row.city = Some(city)
    /\ IsSome(row.street) /\ ILikeContains(Get(row.street), street_name)
    /\ row.region = Some(region)
    /\ IsSome(row.latitude)
    /\ IsSome(row.longitude)

\* an id in ids whose row no row with id in ids precedes in ORDER BY number
FirstInOrder(db, ids) ==
    CHOOSE i \in ids : \A j \in ids : ~NumberLess(db[j].number, db[i].number)

\* the ids in ids whose row may come first: those that the row of id m,
\* which no row precedes, does not precede
MayComeFirst(db, ids, m) == {i \in ids : ~NumberLess(db[m].number, db[i].number)}

\* the lists of the first n rows with ids in ids under ORDER BY number
RECURSIVE OrderedLists(_, _, _)
OrderedLists(db, ids, n) ==
    IF n = 0 \/ ids = {} THEN {<< >>}
    ELSE UNION {{<<db[i]>> \o rest : rest \in OrderedLists(db, ids \ {i}, n - 1)} :
                   i \in MayComeFirst(db, ids, FirstInOrder(db, ids))}

\* a statement without .limit(100)
OrderNoLimit(db, ids) == OrderedLists(db, ids, Cardinality(ids))

\* .order_by(Address.number).limit(100) over the rows with ids in ids: every
\* list the store may return (the order of rows with equal number is the
\* store's choice)
OrderLimit(db, ids) == OrderedLists(db, ids, SEARCH_LIMIT)

ExactIds(db, street_name, city, region) ==
    {i \in 1..Len(db) : ExactWhere(db[i], street_name, city, region)}

FuzzyIds(db, street_name, city, region) ==
    {i \in 1..Len(db) : FuzzyWhere(db[i], street_name, city, region)}

\* search_streets: the set of lists it may return
SearchStreets(db, street_name, city, region) ==
    IF ExactIds(db, street_name, city, region) # {}
    THEN OrderLimit(db, ExactIds(db, street_name, city, region))
    ELSE OrderLimit(db, FuzzyIds(db, street_name, city, region))

\* number of statements search_streets executes
SearchQueries(db, street_name, city, region) ==
    IF ExactIds(db, street_name, city, region) # {} THEN 1 ELSE 2

----------------------------------------------------------------------------
(* Phase 3: StreetSearcher.find_segment                                    *)

\* the sort key of find_segment: parse_number_simple(x.number) if x.number else 0
SortKey(addr) ==
    IF IsNone(addr.number) \/ Get(addr.number) = << >> THEN 0
    ELSE ParseNumberSimple(addr.number).val

\* the list left in the order of the search
AsGiven(cands) == cands

\* sorted(cands, key=SortKey): Python's sort is stable
SortedCandidates(cands) ==
    LET n == Len(cands)
        pos(i) == 1 + Cardinality({j \in 1..n :
                        \/ SortKey(cands[j]) < SortKey(cands[i])
                        \/ SortKey(cands[j]) = SortKey(cands[i]) /\ j < i})
    IN  [k \in 1..n |-> cands[CHOOSE i \in 1..n : pos(i) = k]]

\* StreetSegment(...) from two Address rows
MakeSegment(curr, next_addr) ==
    [street_name  |-> curr.street,
     start_number |-> curr.number,
     end_number   |-> next_addr.number,
     start_lat    |-> Get(curr.latitude),
     start_lon    |-> Get(curr.longitude),
     end_lat      |-> Get(next_addr.latitude),
     end_lon      |-> Get(next_addr.longitude),
     city         |-> curr.city]

\* the integer find_segment compares for a candidate
AddrNum(addr) == ParseNumberSimple(addr.number).val

\* _get_closest_segment with "distance <= min_distance": the latest of the
\* nearest candidates
GetClosestSegmentLatest(cands, target_num) ==
    IF Len(cands) = 0 THEN None
    ELSE IF Len(cands) = 1 THEN Some(MakeSegment(cands[1], cands[1]))
    ELSE LET dist(i) == Abs(AddrNum(cands[i]) - target_num)
             closest_idx == Max({i \in 1..Len(cands) :
                                    \A j \in 1..Len(cands) : dist(i) <= dist(j)})
         IN  IF closest_idx < Len(cands)
             THEN Some(MakeSegment(cands[closest_idx], cands[closest_idx + 1]))
             ELSE Some(MakeSegment(cands[closest_idx - 1], cands[closest_idx]))

\* _get_closest_segment that returns (closest, previous) for the last
\* element
GetClosestSegmentSwapped(cands, target_num) ==
    IF Len(cands) = 0 THEN None
    ELSE IF Len(cands) = 1 THEN Some(MakeSegment(cands[1], cands[1]))
    ELSE LET dist(i) == Abs(AddrNum(cands[i]) - target_num)
             closest_idx == Min({i \in 1..Len(cands) :
                                    \A j \in 1..Len(cands) : dist(i) <= dist(j)})
         IN  IF closest_idx < Len(cands)
             THEN Some(MakeSegment(cands[closest_idx], cands[closest_idx + 1]))
             ELSE Some(MakeSegment(cands[closest_idx], cands[closest_idx - 1]))

\* find_segment without its nearest fallback: no segment when no exact
\* match and no enclosing pair is found
NoClosestSegment(cands, target_num) == None

\* StreetSearcher._get_closest_segment: Option(StreetSegment)
GetClosestSegment(cands, target_num) ==
    IF Len(cands) = 0 THEN None
    ELSE IF Len(cands) = 1 THEN Some(MakeSegment(cands[1], cands[1]))
    ELSE LET dist(i) == Abs(AddrNum(cands[i]) - target_num)
             closest_idx == Min({i \in 1..Len(cands) :
                                    \A j \in 1..Len(cands) : dist(i) <= dist(j)})
         IN  IF closest_idx < Len(cands)
             THEN Some(MakeSegment(cands[closest_idx], cands[closest_idx + 1]))
             ELSE Some(MakeSegment(cands[closest_idx - 1], cands[closest_idx]))

\* find_segment with the loop of the pairs before the loop of the exact match
FindSegmentPairFirst(cands, t) ==
    IF Len(cands) = 0 THEN None
    ELSE IF ~t.ok THEN None
    ELSE LET target_num == t.val
             sorted == SortedCandidates(cands)
             exact  == {i \in 1..Len(sorted) : AddrNum(sorted[i]) = target_num}
             pairs  == {i \in 1..(Len(sorted) - 1) :
                           /\ AddrNum(sorted[i]) <= target_num
                           /\ target_num <= AddrNum(sorted[i + 1])}
         IN  IF pairs # {} THEN Some(MakeSegment(sorted[Min(pairs)], sorted[Min(pairs) + 1]))
             ELSE IF exact # {} THEN Some(MakeSegment(sorted[Min(exact)], sorted[Min(exact)]))
             ELSE GetClosestSegment(sorted, target_num)

\* StreetSearcher.find_segment once parse_number_simple(target_number) has
\* returned t or raised (t.ok false): Option(StreetSegment)
FindSegmentAt(cands, t) ==
    IF Len(cands) = 0 THEN None
    ELSE IF ~t.ok THEN None
    ELSE LET target_num == t.val
             sorted == SortedCandidates(cands)
             exact  == {i \in 1..Len(sorted) : AddrNum(sorted[i]) = target_num}
             pairs  == {i \in 1..(Len(sorted) - 1) :
                           /\ AddrNum(sorted[i]) <= target_num
                           /\ target_num <= AddrNum(sorted[i + 1])}
         IN  IF exact # {} THEN Some(MakeSegment(sorted[Min(exact)], sorted[Min(exact)]))
             ELSE IF pairs # {} THEN Some(MakeSegment(sorted[Min(pairs)], sorted[Min(pairs) + 1]))
             ELSE GetClosestSegment(sorted, target_num)

\* StreetSearcher.find_segment: Option(StreetSegment)
FindSegment(cands, target_number) ==
    FindSegmentAt(cands, ParseNumberSimple(Some(target_number)))

\* StreetSearcher.get_street_centroid, given the list its search returned:
\* Option(<<avg_lat, avg_lon>>); a latitude or longitude of 0 is falsy and
\* is left out of its list
RECURSIVE SumSeq(_)
SumSeq(s) == IF Len(s) = 0 THEN 0 ELSE s[1] + SumSeq(Tail(s))

Truthy(x) == x # 0

StreetCentroid(cands) ==
    IF Len(cands) = 0 THEN None
    ELSE LET all_lats == [i \in 1..Len(cands) |-> Get(cands[i].latitude)]
             all_lons == [i \in 1..Len(cands) |-> Get(cands[i].longitude)]
             lats == SelectSeq(all_lats, Truthy)
             lons == SelectSeq(all_lons, Truthy)
         IN  IF Len(lats) = 0 \/ Len(lons) = 0 THEN None
             ELSE Some(<<Rat(SumSeq(lats), Len(lats)), Rat(SumSeq(lons), Len(lons))>>)

----------------------------------------------------------------------------
(* Phase 4: PositionInterpolator.interpolate                               *)

\* InterpolationResult.__post_init__: the range check passes
PercentageInRange(p) == RatLeq(Rat(0, 1), p) /\ RatLeq(p, Rat(1, 1))

\* the fraction before the range check
Percentage(target_num, start_num, end_num) ==
    Clamp(IF end_num = start_num THEN Rat(0, 1)
          ELSE Rat(target_num - start_num, end_num - start_num),
          Rat(0, 1), Rat(1, 1))

\* the sides the other way round
SideOfEven(target_num) == IF target_num % 2 = 0 THEN "RIGHT" ELSE "LEFT"

\* "RIGHT" if is_odd else "LEFT"
SideOf(target_num) == IF target_num % 2 = 1 THEN "RIGHT" ELSE "LEFT"

\* interpolate: [ok |-> FALSE] stands for the exception raised, the
\* ValueError of int() or of the range check or the OverflowError of the
\* division
Interpolate(target_number, seg) ==
    LET t == ParseNumber(Some(target_number))
        s == ParseNumber(seg.start_number)
        e == ParseNumber(seg.end_number)
    IN  IF ~(t.ok /\ s.ok /\ e.ok) THEN [ok |-> FALSE, error |-> "ValueError"]
        ELSE IF QuotientOverflows(t.digits, s.val, e.val) THEN [ok |-> FALSE, error |-> "integer division result too large for a float"]
        ELSE IF ~PercentageInRange(Percentage(t.val, s.val, e.val)) THEN [ok |-> FALSE, error |-> "ValueError"]
        ELSE [ok         |-> TRUE,
              percentage |-> Percentage(t.val, s.val, e.val),
              side       |-> SideOf(t.val),
              is_odd     |-> t.val % 2 = 1]

----------------------------------------------------------------------------
(* Phases 5 and 6: CoordinateGenerator                                     *)

\* start + percentage * (end - start)
Lerp(start, end, p) == Rat(start * p.den + p.num * (end - start), p.den)

\* generate_coordinates: <<lat, lon>>
GenerateCoordinates(seg, p) ==
    <<Lerp(seg.start_lat, seg.end_lat, p), Lerp(seg.start_lon, seg.end_lon, p)>>

\* apply_lateral_offset: the destination point from <<lat, lon>> at distance_m
\* along the bearing of the segment turned by +90 (RIGHT) or -90 (LEFT)
\* degrees.  The trigonometry is left uninterpreted: the point is the term
\* that names its arguments, and its coordinates are the two projections.
ApplyLateralOffset(lat, lon, seg, side, distance_m) ==
    LET dest == [origin      |-> <<lat, lon>>,
                 bearing_of  |-> <<seg.start_lat, seg.start_lon, seg.end_lat, seg.end_lon>>,
                 turn        |-> IF side = "RIGHT" THEN 90 ELSE -90,
                 distance_m  |-> distance_m]
    IN  <<[coord |-> "lat", of |-> dest], [coord |-> "lon", of |-> dest]>>

----------------------------------------------------------------------------
(* GeocodingService: the results it builds                                 *)

GeocodingResult(success, latitude, longitude, accuracy, side, matched_street, message, comps, seg) ==
    [success        |-> success,
     latitude       |-> latitude,
     longitude      |-> longitude,
     accuracy       |-> accuracy,
     side           |-> side,
     matched_street |-> matched_street,
     message        |-> message,
     components     |-> comps,
     segment        |-> seg]

\* a parse failure exit that reports success
ParseFailedAsSuccess(address) ==
    GeocodingResult(TRUE, None, None, "PARSE_FAILED", None, None,
                    <<"Failed to parse address: ", address>>, None, None)

\* the result of the parse failure exit
ParseFailedResult(address) ==
    GeocodingResult(FALSE, None, None, "PARSE_FAILED", None, None,
                    <<"Failed to parse address: ", address>>, None, None)

\* an empty search exit that leaves the components out
NoStreetMatchBare(c, city) ==
    GeocodingResult(FALSE, None, None, "NO_STREET_MATCH", None, None,
                    <<"No streets found matching: ", FullStreetName(c), " in ", city>>,
                    None, None)

\* the result of the empty search exit
NoStreetMatchResult(c, city) ==
    GeocodingResult(FALSE, None, None, "NO_STREET_MATCH", None, None,
                    <<"No streets found matching: ", FullStreetName(c), " in ", city>>,
                    Some(c), None)

\* a centroid fallback that reports the accuracy RANGE_MATCH
StreetCentroidAsRangeMatch(c, cen) ==
    GeocodingResult(TRUE, Some(cen[1]), Some(cen[2]), "RANGE_MATCH", None,
                    Some(FullStreetName(c)),
                    <<"Used street centroid (number not found in range)">>,
                    Some(c), None)

\* the result of the centroid fallback
StreetCentroidResult(c, cen) ==
    GeocodingResult(TRUE, Some(cen[1]), Some(cen[2]), "STREET_CENTROID", None,
                    Some(FullStreetName(c)),
                    <<"Used street centroid (number not found in range)">>,
                    Some(c), None)

\* the result of the no segment exit
NoMatchResult(c) ==
    GeocodingResult(FALSE, None, None, "NO_MATCH", None, None,
                    <<"Number ", c.number_prefix, " not found in street range">>,
                    Some(c), None)

\* a result of the six phases that names the street asked for
InterpolatedAsAsked(c, seg, ir, final) ==
    GeocodingResult(TRUE, Some(final[1]), Some(final[2]), "INTERPOLATED",
                    Some(ir.side), Some(FullStreetName(c)), <<"Successfully geocoded">>,
                    Some(c), Some(seg))

\* the result of the six phases
InterpolatedResult(c, seg, ir, final) ==
    GeocodingResult(TRUE, Some(final[1]), Some(final[2]), "INTERPOLATED",
                    Some(ir.side), seg.street_name, <<"Successfully geocoded">>,
                    Some(c), Some(seg))

\* the result of the except clause
ErrorResult(e) ==
    GeocodingResult(FALSE, None, None, "ERROR", None, None,
                    <<"Geocoding error: ", e>>, None, None)

\* no except clause: the exception leaves geocode
CatchNothing(e) == [pc |-> "RAISED", result |-> None]

\* except Exception as e: where the call goes and what it returns
Catch(e) == [pc |-> "DONE", result |-> Some(ErrorResult(e))]

\* the texts of the exceptions a statement of the store may raise
StoreErrors == {"connection lost"}

\* the arguments batch_geocode passes to geocode for one entry of its list,
\* after geocode has replaced an absent offset_distance by the configured one
GeocodeArgs(addr_data, default_region, offset_distance, cfg) ==
    [address         |-> addr_data.address,
     city            |-> addr_data.city,
     region          |-> IF IsSome(addr_data.region) THEN Get(addr_data.region)
                         ELSE default_region,
     offset_distance |-> IF IsNone(offset_distance) THEN cfg.default_offset_distance_m
                         ELSE Get(offset_distance)]

\* if not components
AfterParse(c) == IF IsNone(c) THEN "DONE" ELSE "SEARCHING"

\* the empty search exit is not taken
AfterSearchGoesOn(cands) == "MATCHING"

\* if not candidates
AfterSearch(cands) == IF Len(cands) = 0 THEN "DONE" ELSE "MATCHING"

\* the fallback runs whatever the configuration says
AfterMatchAlwaysFallsBack(seg, cfg) ==
    IF IsSome(seg) THEN "INTERPOLATING" ELSE "CENTROID"

\* if not segment: ... if self.config.enable_fallbacks
AfterMatch(seg, cfg) ==
    IF IsSome(seg) THEN "INTERPOLATING"
    ELSE IF cfg.enable_fallbacks THEN "CENTROID"
    ELSE "DONE"

\* the loop stops after the first entry
LoopStopsEarly(done, total) == done < total /\ done < 1

\* for addr_data in addresses: the loop goes on while entries are left
LoopGoesOn(done, total) == done < total

----------------------------------------------------------------------------
(* The rows, stores and requests the service is run on                     *)

\* longest list batch_geocode is given
MaxBatch == 2

Row(h, number, street, city, region, latitude, longitude) ==
    [hash |-> h, number |-> number, street |-> street, city |-> city,
     region |-> region, latitude |-> latitude, longitude |-> longitude]

KR43 == <<"K", "R", " ", "4", "3">>

KR43A == <<"K", "R", " ", "4", "3", "A">>

\* two points of KR 43 in Jardin (ANT), one more in region CUN, one without
\* latitude
StoreJardin ==
    <<Row(Some("h1"), Some(<<"5", "0">>), Some(KR43), Some("Jardin"), Some("ANT"), Some(10), Some(20)),
      Row(Some("h2"), Some(<<"1", "0", "0">>), Some(KR43), Some("Jardin"), Some("ANT"), Some(30), Some(40)),
      Row(Some("h3"), Some(<<"7", "5">>), Some(KR43), Some("Jardin"), Some("CUN"), Some(7), Some(9)),
      Row(None, Some(<<"6", "0">>), Some(KR43), Some("Jardin"), Some("ANT"), None, Some(5))>>

\* KR 43A only, two rows with the same number, with a latitude or a
\* longitude of 0
StoreZero ==
    <<Row(Some("h4"), Some(<<"7">>), Some(KR43A), Some("Jardin"), Some("ANT"), Some(0), Some(5)),
      Row(Some("h5"), Some(<<"7">>), Some(KR43A), Some("Jardin"), Some("ANT"), Some(3), Some(0))>>

\* KR 43A only, every latitude 0
StoreEquator ==
    <<Row(Some("h6"), Some(<<"7">>), Some(KR43A), Some("Jardin"), Some("ANT"), Some(0), Some(5))>>

Stores == {<< >>, StoreJardin, StoreZero, StoreEquator}

\* "KR 43 # 75"
AddrInterp == <<"K", "R", " ", "4", "3", " ", "#", " ", "7", "5">>

\* "kr 43 # 50"
AddrExact == <<"k", "r", " ", "4", "3", " ", "#", " ", "5", "0">>

\* "KR 999 # 50"
AddrNoStreet == <<"K", "R", " ", "9", "9", "9", " ", "#", " ", "5", "0">>

\* "Invalid Address 123"
AddrInvalid == <<"I", "n", "v", "a", "l", "i", "d", " ", "A", "d", "d", "r", "e", "s", "s", " ",
                 "1", "2", "3">>

\* "KR 43 # 11...1": a house number one digit longer than int() converts
AddrLong == <<"K", "R", " ", "4", "3", " ", "#", " ">>
            \o [i \in 1..(INT_MAX_STR_DIGITS + 1) |-> "1"]

\* a house number int() converts and no float holds: 1 and as many zeros as
\* FLOAT_OVERFLOW has digits, and one more
NumberHuge == <<"1">> \o [i \in 1..(Len(FLOAT_OVERFLOW) + 1) |-> "0"]

AddrHuge == <<"K", "R", " ", "4", "3", " ", "#", " ">> \o NumberHuge

\* the entries of the list: region None is an entry without the key
Requests ==
    {[address |-> Some(AddrInterp),   city |-> "Jardin", region |-> None],
     [address |-> Some(AddrInterp),   city |-> "Jardin", region |-> Some("CUN")],
     [address |-> Some(AddrExact),    city |-> "Jardin", region |-> None],
     [address |-> Some(AddrNoStreet), city |-> "Jardin", region |-> None],
     [address |-> Some(AddrInvalid),  city |-> "Jardin", region |-> None],
     [address |-> Some(AddrLong),     city |-> "Jardin", region |-> None],
     [address |-> Some(AddrHuge),     city |-> "Jardin", region |-> None]}

\* the lists of batch_geocode: up to MaxBatch requests, none of them twice
RequestLists ==
    {l \in UNION {[1..n -> Requests] : n \in 1..MaxBatch} :
        \A i, j \in 1..Len(l) : i < j => l[i] # l[j]}

\* self.parser.parse(address), tabulated over the addresses of Requests
ParseTable == [a \in {r.address : r \in Requests} |-> Parse(a)]

\* the number prefixes of the components in ParseTable
NumberPrefixes ==
    {Get(c).number_prefix : c \in {ParseTable[a] : a \in DOMAIN ParseTable} \ {None}}

\* parse_number_simple(target_number), tabulated over NumberPrefixes
TargetTable == [n \in NumberPrefixes |-> ParseNumberSimple(Some(n))]

\* GeocodingService.geocode as a function of its arguments and of the store:
\* the set of results the call may return (the store may fail any statement,
\* and may order rows of equal number either way)
GeocodeOutcomes(db, cfg, args) ==
    LET c == ParseTable[args.address]
    IN  IF AfterParse(c) = "DONE" THEN {ParseFailedResult(Get(args.address))}
        ELSE LET name  == FullStreetName(Get(c))
                 found == SearchStreets(db, name, args.city, args.region)
                 Fallback(again) ==
                     IF IsSome(StreetCentroid(again))
                     THEN StreetCentroidResult(Get(c), Get(StreetCentroid(again)))
                     ELSE NoMatchResult(Get(c))
                 Sixth(seg, ir) ==
                     LET p == GenerateCoordinates(seg, ir.percentage)
                     IN  InterpolatedResult(Get(c), seg, ir,
                             ApplyLateralOffset(p[1], p[2], seg, ir.side,
                                                args.offset_distance))
                 Matched(cands) ==
                     LET seg == FindSegmentAt(cands, TargetTable[Get(c).number_prefix])
                     IN  IF AfterSearch(cands) = "DONE"
                         THEN {NoStreetMatchResult(Get(c), args.city)}
                         ELSE IF AfterMatch(seg, cfg) = "DONE"
                         THEN {NoMatchResult(Get(c))}
                         ELSE IF AfterMatch(seg, cfg) = "CENTROID"
                         THEN {ErrorResult(e) : e \in StoreErrors}
                              \cup {Fallback(again) : again \in found}
                         ELSE LET ir == Interpolate(Get(c).number_prefix, Get(seg))
                              IN  IF ir.ok THEN {Sixth(Get(seg), ir)}
                                  ELSE {ErrorResult(ir.error)}
             IN  {ErrorResult(e) : e \in StoreErrors}
                 \cup UNION {Matched(cands) : cands \in found}

\* the configurations of the service
Configs == [enable_fallbacks : BOOLEAN, default_offset_distance_m : {10}]

\* the arguments batch_geocode calls geocode with
BatchArgs ==
    {[address |-> r.address, city |-> r.city, region |-> g, offset_distance |-> d] :
        r \in Requests, g \in {"ANT", "CUN"}, d \in {10, 25}}

\* GeocodeOutcomes, tabulated over the stores, the configurations and the
\* arguments of the calls (@@ makes the table an explicit function,
\* computed once)
OutcomeTable == [k \in Stores \X Configs \X BatchArgs |-> GeocodeOutcomes(k[1], k[2], k[3])] @@ << >>

----------------------------------------------------------------------------
(* GeocodingService: geocode and batch_geocode, one action per step        *)

PhaseOrder == <<"PARSE", "SEARCH", "MATCH", "INTERPOLATE", "GENERATE", "OFFSET">>

\* the ingesters of the store
Procs == {1, 2}

\* the fingerprints of the records ingested
Keys == {"h1", "h2"}

\* ImportStats.__init__ with total_lines as import_geojson sets it
NewStats(total_lines) ==
    [total_lines |-> total_lines, processed |-> 0, inserted |-> 0, updated |-> 0,
     skipped |-> 0, errors |-> 0]

\* no ingester runs
IngestOff ==
    /\ job = [p \in Procs |-> [file |-> << >>, batch_size |-> 1, skip_lines |-> 0]]
    /\ ipc = [p \in Procs |-> "off"]
    /\ line_count = [p \in Procs |-> 0]
    /\ batch = [p \in Procs |-> << >>]
    /\ pending = [p \in Procs |-> << >>]
    /\ batch_count = [p \in Procs |-> 0]
    /\ stats = [p \in Procs |-> NewStats(0)]
    /\ runs = [p \in Procs |-> 0]
    /\ locks = [k \in Keys |-> 0]
    /\ checkpoint = None
    /\ faults = 0
    /\ runStart = [p \in Procs |-> << >>]
    /\ history = [p \in Procs |-> << >>]
    /\ lastCommitted = [k \in Keys |-> None]
    /\ exit_status = [p \in Procs |-> None]

GeocodeInit ==
    /\ store \in Stores
    /\ config \in Configs
    /\ call \in [default_region : {"ANT"}, offset_distance : {None, Some(25)}]
    /\ addresses \in RequestLists
    /\ results = << >>
    /\ pc = "idle"
    /\ req = None
    /\ components = None
    /\ candidates = << >>
    /\ segment = None
    /\ centroid = None
    /\ interp = None
    /\ point = None
    /\ result = None
    /\ phases = << >>
    /\ queries = 0
    /\ exc = None
    /\ IngestOff

\* batch_geocode: the loop calls geocode for the next entry
CallGeocode ==
    /\ pc = "idle"
    /\ UNCHANGED ivars
    /\ LoopGoesOn(Len(results), Len(addresses))
    /\ req' = Some(GeocodeArgs(addresses[Len(results) + 1], call.default_region,
                               call.offset_distance, config))
    /\ pc' = "PARSING"
    /\ components' = None
    /\ candidates' = << >>
    /\ segment' = None
    /\ centroid' = None
    /\ interp' = None
    /\ point' = None
    /\ result' = None
    /\ phases' = << >>
    /\ queries' = 0
    /\ exc' = None
    /\ UNCHANGED <<store, config, call, addresses, results>>

\* an exception e leaves the try block
Raise(e) ==
    /\ exc' = Some(e)
    /\ pc' = Catch(e).pc
    /\ result' = Catch(e).result

\* PHASE 1: PARSE
DoParse ==
    /\ pc = "PARSING"
    /\ UNCHANGED ivars
    /\ phases' = Append(phases, "PARSE")
    /\ components' = ParseTable[Get(req).address]
    /\ pc' = AfterParse(components')
    /\ result' = IF pc' = "DONE" THEN Some(ParseFailedResult(Get(Get(req).address)))
                 ELSE None
    /\ UNCHANGED <<store, config, call, addresses, results, req, candidates, segment,
                   centroid, interp, point, queries, exc>>

\* PHASE 2: SEARCH
DoSearch ==
    /\ pc = "SEARCHING"
    /\ UNCHANGED ivars
    /\ phases' = Append(phases, "SEARCH")
    /\ LET name == FullStreetName(Get(components))
           n    == SearchQueries(store, name, Get(req).city, Get(req).region)
       IN  \/ \E cands \in SearchStreets(store, name, Get(req).city, Get(req).region) :
                 /\ candidates' = cands
                 /\ queries' = queries + n
                 /\ pc' = AfterSearch(cands)
                 /\ result' = IF pc' = "DONE"
                              THEN Some(NoStreetMatchResult(Get(components), Get(req).city))
                              ELSE None
                 /\ UNCHANGED exc
           \/ \E e \in StoreErrors, k \in 1..n :
                 /\ queries' = queries + k
                 /\ Raise(e)
                 /\ UNCHANGED candidates
    /\ UNCHANGED <<store, config, call, addresses, results, req, components, segment,
                   centroid, interp, point>>

\* PHASE 3: MATCH
DoMatch ==
    /\ pc = "MATCHING"
    /\ UNCHANGED ivars
    /\ phases' = Append(phases, "MATCH")
    /\ segment' = FindSegmentAt(candidates, TargetTable[Get(components).number_prefix])
    /\ pc' = AfterMatch(segment', config)
    /\ result' = IF pc' = "DONE" THEN Some(NoMatchResult(Get(components))) ELSE None
    /\ UNCHANGED <<store, config, call, addresses, results, req, components, candidates,
                   centroid, interp, point, queries, exc>>

\* Fallback: Use street centroid
DoCentroid ==
    /\ pc = "CENTROID"
    /\ UNCHANGED ivars
    /\ LET name == FullStreetName(Get(components))
           n    == SearchQueries(store, name, Get(req).city, Get(req).region)
       IN  \/ \E cands \in SearchStreets(store, name, Get(req).city, Get(req).region) :
                 /\ centroid' = StreetCentroid(cands)
                 /\ queries' = queries + n
                 /\ pc' = "DONE"
                 /\ result' = IF IsSome(centroid')
                              THEN Some(StreetCentroidResult(Get(components), Get(centroid')))
                              ELSE Some(NoMatchResult(Get(components)))
                 /\ UNCHANGED exc
           \/ \E e \in StoreErrors, k \in 1..n :
                 /\ queries' = queries + k
                 /\ Raise(e)
                 /\ UNCHANGED centroid
    /\ UNCHANGED <<store, config, call, addresses, results, req, components, candidates,
                   segment, interp, point, phases>>

\* PHASE 4: INTERPOLATE
DoInterpolate ==
    /\ pc = "INTERPOLATING"
    /\ UNCHANGED ivars
    /\ phases' = Append(phases, "INTERPOLATE")
    /\ LET ir == Interpolate(Get(components).number_prefix, Get(segment))
       IN  IF ir.ok
           THEN /\ interp' = Some(ir)
                /\ pc' = "GENERATING"
                /\ UNCHANGED <<result, exc>>
           ELSE /\ Raise(ir.error)
                /\ UNCHANGED interp
    /\ UNCHANGED <<store, config, call, addresses, results, req, components, candidates,
                   segment, centroid, point, queries>>

\* PHASE 5: GENERATE
DoGenerate ==
    /\ pc = "GENERATING"
    /\ UNCHANGED ivars
    /\ phases' = Append(phases, "GENERATE")
    /\ point' = Some(GenerateCoordinates(Get(segment), Get(interp).percentage))
    /\ pc' = "OFFSETTING"
    /\ UNCHANGED <<store, config, call, addresses, results, req, components, candidates,
                   segment, centroid, interp, result, queries, exc>>

\* PHASE 6: OFFSET, and the return of the result
DoOffset ==
    /\ pc = "OFFSETTING"
    /\ UNCHANGED ivars
    /\ phases' = Append(phases, "OFFSET")
    /\ LET final == ApplyLateralOffset(Get(point)[1], Get(point)[2], Get(segment),
                                       Get(interp).side, Get(req).offset_distance)
       IN  result' = Some(InterpolatedResult(Get(components), Get(segment), Get(interp), final))
    /\ pc' = "DONE"
    /\ UNCHANGED <<store, config, call, addresses, results, req, components, candidates,
                   segment, centroid, interp, point, queries, exc>>

\* batch_geocode: results.append(result)
AppendResult ==
    /\ pc = "DONE"
    /\ UNCHANGED ivars
    /\ results' = Append(results, Get(result))
    /\ pc' = "idle"
    /\ UNCHANGED <<store, config, call, addresses, req, components, candidates, segment,
                   centroid, interp, point, result, phases, queries, exc>>

\* batch_geocode: return results
ReturnResults ==
    /\ pc = "idle"
    /\ UNCHANGED ivars
    /\ ~LoopGoesOn(Len(results), Len(addresses))
    /\ pc' = "RETURNED"
    /\ UNCHANGED <<store, config, call, addresses, results, req, components, candidates,
                   segment, centroid, interp, point, result, phases, queries, exc>>

GeocodeNext ==
    \/ CallGeocode
    \/ DoParse
    \/ DoSearch
    \/ DoMatch
    \/ DoCentroid
    \/ DoInterpolate
    \/ DoGenerate
    \/ DoOffset
    \/ AppendResult
    \/ ReturnResults

----------------------------------------------------------------------------
(* The files and the runs of the ingesters                                 *)

\* the longest file of the ingester that runs alone
MaxLines == 4

\* the largest batch_size
MaxBatchSize == 2

\* the largest skip_lines
MaxSkip == 1

\* the runs of import_geojson on the same file
MaxRuns == 2

\* the store failures not caused by the data
MaxFaults == 1

\* the longest file of two ingesters that run together
MaxUpsertLines == 2

\* the longest file of the ingester that runs up to a checkpoint
MaxCheckpointLines == 11

\* the most lines that are not JSON in a file of that ingester
MaxBadLines == 1

\* a line that holds a Feature with a Point geometry
Feature(h, number, lat, lon) ==
    Some([object |-> TRUE, type |-> "Feature",
          properties |-> [hash |-> h, number |-> Some(number), street |-> Some(KR43),
                          city |-> Some("Jardin"), region |-> Some("ANT")],
          coordinates |-> <<Some(lon), Some(lat)>>])

\* a record with the fingerprint h1
LineA == Feature(Some("h1"), <<"5", "0">>, 10, 20)

\* the same fingerprint with other values
LineB == Feature(Some("h1"), <<"9", "0">>, 30, 40)

\* a record with the fingerprint h2
LineC == Feature(Some("h2"), <<"7", "0">>, 50, 60)

\* a record without fingerprint
LineN == Feature(None, <<"6", "0">>, 70, 80)

\* a line that is not JSON
LineX == None

\* a line that holds a JSON array
LineArray == Some([object |-> FALSE])

\* a Feature whose longitude is a string
LineText ==
    Some([object |-> TRUE, type |-> "Feature",
          properties |-> [hash |-> Some("h2"), number |-> None, street |-> None, city |-> None, region |-> None],
          coordinates |-> <<None, Some(60)>>])

\* the lines of the files main is run on
MainLines == {LineA, LineX, LineArray, LineText}

\* the longest file main is run on
MaxMainLines == 3

\* the lines of the files of the ingester that runs alone
IngestLines == {LineA, LineB, LineN, LineX}

\* the lines of the files of two ingesters that run together
UpsertLines == {LineA, LineB, LineC}

\* the arguments of import_geojson
Jobs(lines, max_lines, max_skip) ==
    {[file |-> f, batch_size |-> n, skip_lines |-> m] :
        f \in UNION {[1..l -> lines] : l \in 1..max_lines}, n \in 1..MaxBatchSize, m \in 0..max_skip}

\* the arguments of an ingester that does not run
IdleJob == [file |-> << >>, batch_size |-> 1, skip_lines |-> 0]

----------------------------------------------------------------------------
(* The GeoJSON reader (geojson_importer.py).  A line of the file is        *)
(* Option(data): None for a text json.loads rejects, Some(data) for a JSON *)
(* value: an object (data.object) with its type, its properties (each      *)
(* Option(value)) and the coordinates of its geometry, or another value     *)
(* (an array, a string, a number, null).  A coordinate is Some(x) for a     *)
(* whole number x, so that Decimal(str(x)) is x, and None for a value that  *)
(* is no number (a string, null, an array)                                  *)

\* value.strip() == "" for a text read character by character
BlankText(v) == \A i \in 1..Len(v) : IsSpace(v[i])

\* the texts kept whole for which value.strip() == ""
BlankNames == {"", " "}

\* properties.get(k) or None, and then None for a blank string
TextOrNone(v) == IF IsNone(v) \/ BlankText(Get(v)) THEN None ELSE v

\* the same for a property the model keeps whole
NameOrNone(v) == IF IsNone(v) \/ Get(v) \in BlankNames THEN None ELSE v

\* parse_geojson_line, once json.loads has returned data
AddressData(data) ==
    IF data.type # "Feature" THEN None
    ELSE IF Len(data.coordinates) < 2 THEN None
    ELSE Some(Row(NameOrNone(data.properties.hash), TextOrNone(data.properties.number),
                  TextOrNone(data.properties.street), NameOrNone(data.properties.city),
                  NameOrNone(data.properties.region), data.coordinates[2],
                  data.coordinates[1]))

\* the exception the body of parse_geojson_line raises on data, if any:
\* data.get on a value that is no object, Decimal(str(x)) on a coordinate
\* that is no number
RaisedOn(data) ==
    IF ~data.object THEN Some("AttributeError")
    ELSE IF data.type # "Feature" \/ Len(data.coordinates) < 2 THEN None
    ELSE IF IsNone(data.coordinates[1]) \/ IsNone(data.coordinates[2]) THEN Some("InvalidOperation")
    ELSE None

\* except (json.JSONDecodeError, ValueError, KeyError)
CAUGHT == {"JSONDecodeError", "ValueError", "KeyError"}

\* the exception the try block of parse_geojson_line ends with, if any
TryRaises(line) == IF IsNone(line) THEN Some("JSONDecodeError") ELSE RaisedOn(Get(line))

\* parse_geojson_line: Option(the exception it raises)
ParseGeojsonLineRaises(line) ==
    IF IsSome(TryRaises(line)) /\ Get(TryRaises(line)) \notin CAUGHT THEN TryRaises(line) ELSE None

\* parse_geojson_line: Option(record of the Address model) that it returns,
\* None also where it raises
ParseGeojsonLine(line) == IF IsSome(TryRaises(line)) THEN None ELSE AddressData(Get(line))

\* read_geojson_batch from the line after line n, with acc the batch
\* collected so far: the batch it yields next and the lines consumed by
\* then; an empty batch when the generator is exhausted or when
\* parse_geojson_line raises, and then the exception that leaves it
RECURSIVE ReadGeojsonBatch(_, _, _, _, _)
ReadGeojsonBatch(file, n, batch_size, skip_lines, acc) ==
    IF n = Len(file) THEN [batch |-> acc, line_count |-> n, raised |-> None]
    ELSE IF n + 1 <= skip_lines
         THEN ReadGeojsonBatch(file, n + 1, batch_size, skip_lines, acc)
    ELSE IF IsSome(ParseGeojsonLineRaises(file[n + 1]))
         THEN [batch |-> << >>, line_count |-> n + 1, raised |-> ParseGeojsonLineRaises(file[n + 1])]
    ELSE IF IsNone(ParseGeojsonLine(file[n + 1]))
         THEN ReadGeojsonBatch(file, n + 1, batch_size, skip_lines, acc)
    ELSE IF Len(acc) + 1 >= batch_size
         THEN [batch |-> Append(acc, Get(ParseGeojsonLine(file[n + 1]))), line_count |-> n + 1,
               raised |-> None]
    ELSE ReadGeojsonBatch(file, n + 1, batch_size, skip_lines,
                          Append(acc, Get(ParseGeojsonLine(file[n + 1]))))

----------------------------------------------------------------------------
(* The upsert of a batch (import_geojson.py, bulk_upsert_addresses) in the *)
(* store: INSERT ... ON CONFLICT (hash) DO UPDATE takes the rows of the    *)
(* batch in order; a transaction that has written a fingerprint holds it    *)
(* until it commits or rolls back                                           *)

\* the ids of the rows of db with fingerprint k (the unique index on hash)
RowsWithKey(db, k) == {i \in 1..Len(db) : db[i].hash = Some(k)}

\* an update on conflict whose set_ leaves longitude and latitude out
OnConflictKeepsCoordinates(old, excluded) ==
    [hash |-> old.hash, number |-> excluded.number, street |-> excluded.street,
     city |-> excluded.city, region |-> excluded.region, latitude |-> old.latitude,
     longitude |-> old.longitude]

\* ON CONFLICT (hash) DO UPDATE SET ...: the row after the update, every
\* value column taken from the row of the batch
OnConflictDoUpdate(old, excluded) ==
    [hash |-> old.hash, number |-> excluded.number, street |-> excluded.street,
     city |-> excluded.city, region |-> excluded.region, latitude |-> excluded.latitude,
     longitude |-> excluded.longitude]

\* a plain INSERT, without its ON CONFLICT clause
InsertAlways(db, row) == [op |-> "insert", id |-> 0, row |-> row]

\* the write the statement makes for a row of the batch: an update of the
\* row that holds its fingerprint, an insert when there is none or when the
\* row has no fingerprint (NULLs never conflict)
WriteFor(db, row) ==
    IF IsSome(row.hash) /\ RowsWithKey(db, Get(row.hash)) # {}
    THEN [op |-> "update", id |-> Min(RowsWithKey(db, Get(row.hash))), row |-> row]
    ELSE [op |-> "insert", id |-> 0, row |-> row]

\* the store after the write w
ApplyWrite(db, w) ==
    IF w.op = "update" THEN [db EXCEPT ![w.id] = OnConflictDoUpdate(db[w.id], w.row)]
    ELSE Append(db, w.row)

\* session.commit(): the writes of the transaction reach the store
RECURSIVE ApplyWrites(_, _)
ApplyWrites(db, ws) == IF ws = << >> THEN db ELSE ApplyWrites(ApplyWrite(db, Head(ws)), Tail(ws))

\* an except clause that commits what the statement has written
RollbackKeepsWrites(db, ws) == ApplyWrites(db, ws)

\* session.rollback(): the store without the writes of the transaction
Rollback(db, ws) == db

\* the fingerprints held by other transactions than that of p
HeldByOther(p, k) == locks[k] # 0 /\ locks[k] # p

\* the row the statement of p takes next
NextRow(p) == batch[p][Len(pending[p]) + 1]

\* the statement of p waits for the transaction that holds the fingerprint
\* of its next row
Waiting(p) ==
    /\ ipc[p] = "executing"
    /\ Len(pending[p]) < Len(batch[p])
    /\ IsSome(NextRow(p).hash)
    /\ HeldByOther(p, Get(NextRow(p).hash))

\* "Guardar checkpoint cada 10 lotes"
CHECKPOINT_EVERY == 10

\* a checkpoint of the lines of the file
CheckpointOfTotalLines(p) == Len(job[p].file)

\* checkpoint_file.write_text(str(stats.processed + skip_lines))
CheckpointValue(p) == stats[p].processed + job[p].skip_lines

\* the rest of the loop body once the transaction of the batch has ended:
\* the counters of bulk_upsert_addresses and the checkpoint
EndBatch(p, ok) ==
    /\ stats' = [stats EXCEPT ![p].inserted = @ + (IF ok THEN Len(batch[p]) ELSE 0),
                              ![p].errors = @ + (IF ok THEN 0 ELSE Len(batch[p]))]
    /\ locks' = [k \in Keys |-> IF locks[k] = p THEN 0 ELSE locks[k]]
    /\ pending' = [pending EXCEPT ![p] = << >>]
    /\ history' = [history EXCEPT ![p] = Append(@, [batch |-> batch[p], ok |-> ok])]
    /\ checkpoint' = IF batch_count[p] % CHECKPOINT_EVERY = 0
                     THEN Some(CheckpointValue(p))
                     ELSE checkpoint
    /\ ipc' = [ipc EXCEPT ![p] = "reading"]
    /\ UNCHANGED <<job, exit_status, line_count, batch, batch_count, runs, runStart, gvars>>

\* a loop head that counts the batch, not its records, as processed
TakeBatchCountsBatches(p, r) ==
    /\ line_count' = [line_count EXCEPT ![p] = r.line_count]
    /\ batch' = [batch EXCEPT ![p] = r.batch]
    /\ batch_count' = [batch_count EXCEPT ![p] = @ + 1]
    /\ stats' = [stats EXCEPT ![p].processed = @ + 1]
    /\ pending' = [pending EXCEPT ![p] = << >>]
    /\ ipc' = [ipc EXCEPT ![p] = "executing"]

\* import_geojson: the generator yields the next batch r
TakeBatch(p, r) ==
    /\ line_count' = [line_count EXCEPT ![p] = r.line_count]
    /\ batch' = [batch EXCEPT ![p] = r.batch]
    /\ batch_count' = [batch_count EXCEPT ![p] = @ + 1]
    /\ stats' = [stats EXCEPT ![p].processed = @ + Len(r.batch)]
    /\ pending' = [pending EXCEPT ![p] = << >>]
    /\ ipc' = [ipc EXCEPT ![p] = "executing"]

\* import_geojson: the head of the loop, with a batch to handle
NextBatch(p) ==
    /\ ipc[p] = "reading"
    /\ ReadGeojsonBatch(job[p].file, line_count[p], job[p].batch_size, job[p].skip_lines, << >>).batch # << >>
    /\ TakeBatch(p, ReadGeojsonBatch(job[p].file, line_count[p], job[p].batch_size, job[p].skip_lines, << >>))
    /\ UNCHANGED <<store, job, exit_status, runs, locks, checkpoint, faults, runStart, history, lastCommitted, gvars>>

\* import_geojson: the generator is exhausted and the run returns its stats
RunEnds(p) ==
    /\ ipc[p] = "reading"
    /\ ReadGeojsonBatch(job[p].file, line_count[p], job[p].batch_size, job[p].skip_lines, << >>).batch = << >>
    /\ IsNone(ReadGeojsonBatch(job[p].file, line_count[p], job[p].batch_size, job[p].skip_lines, << >>).raised)
    /\ line_count' = [line_count EXCEPT ![p] = Len(job[p].file)]
    /\ ipc' = [ipc EXCEPT ![p] = "finished"]
    /\ UNCHANGED <<store, job, exit_status, batch, pending, batch_count, stats, runs, locks, checkpoint, faults,
                   runStart, history, lastCommitted, gvars>>

\* session.execute: the statement writes the next row of the batch
WriteRow(p) ==
    /\ ipc[p] = "executing"
    /\ Len(pending[p]) < Len(batch[p])
    /\ IsSome(NextRow(p).hash) => locks[Get(NextRow(p).hash)] = 0
    /\ pending' = [pending EXCEPT ![p] = Append(@, WriteFor(store, NextRow(p)))]
    /\ locks' = [k \in Keys |-> IF NextRow(p).hash = Some(k) THEN p ELSE locks[k]]
    /\ UNCHANGED <<store, job, exit_status, ipc, line_count, batch, batch_count, stats, runs, checkpoint,
                   faults, runStart, history, lastCommitted, gvars>>

\* session.execute: the next row has a fingerprint the statement has already
\* written ("ON CONFLICT DO UPDATE command cannot affect row a second
\* time"); the except clause rolls back
RowTwice(p) ==
    /\ ipc[p] = "executing"
    /\ Len(pending[p]) < Len(batch[p])
    /\ IsSome(NextRow(p).hash)
    /\ locks[Get(NextRow(p).hash)] = p
    /\ store' = Rollback(store, pending[p])
    /\ EndBatch(p, FALSE)
    /\ UNCHANGED <<faults, lastCommitted>>

\* session.execute: the store ends a wait of two transactions for each other
\* by failing the statement of one; the except clause rolls back
DeadlockDetected(p) ==
    /\ Waiting(p)
    /\ \E q \in Procs : Waiting(q) /\ locks[Get(NextRow(q).hash)] = p
    /\ store' = Rollback(store, pending[p])
    /\ EndBatch(p, FALSE)
    /\ UNCHANGED <<faults, lastCommitted>>

\* session.execute or session.commit fails for a reason the batch does not
\* hold (the connection is lost); the except clause rolls back
StoreFault(p) ==
    /\ ipc[p] = "executing"
    /\ faults < MaxFaults
    /\ faults' = faults + 1
    /\ store' = Rollback(store, pending[p])
    /\ EndBatch(p, FALSE)
    /\ UNCHANGED lastCommitted

\* the last committed upsert of each fingerprint after the writes ws
Committed(last, ws) ==
    [k \in Keys |-> IF \E i \in 1..Len(ws) : ws[i].row.hash = Some(k)
                    THEN Some(ws[Max({i \in 1..Len(ws) : ws[i].row.hash = Some(k)})].row)
                    ELSE last[k]]

\* session.commit() after the statement has written every row
Commit(p) ==
    /\ ipc[p] = "executing"
    /\ Len(pending[p]) = Len(batch[p])
    /\ store' = ApplyWrites(store, pending[p])
    /\ lastCommitted' = Committed(lastCommitted, pending[p])
    /\ EndBatch(p, TRUE)
    /\ UNCHANGED faults

\* the exit of main with status code, ended by what by tells
Exits(p, code, by) ==
    /\ ipc' = [ipc EXCEPT ![p] = "exited"]
    /\ exit_status' = [exit_status EXCEPT ![p] = Some([code |-> code, by |-> by])]

\* read_geojson_batch raises r.raised while import_geojson asks for the next
\* batch; the exception leaves import_geojson and main exits 1 in its
\* "except Exception"
ReaderRaisesWith(p, r) ==
    /\ IsSome(r.raised)
    /\ line_count' = [line_count EXCEPT ![p] = r.line_count]
    /\ Exits(p, 1, Get(r.raised))

ReaderRaises(p) ==
    /\ ipc[p] = "reading"
    /\ ReaderRaisesWith(p, ReadGeojsonBatch(job[p].file, line_count[p], job[p].batch_size, job[p].skip_lines, << >>))
    /\ UNCHANGED <<store, job, batch, pending, batch_count, stats, runs, locks, checkpoint, faults, runStart, history, lastCommitted, gvars>>

\* main after import_geojson has returned: the final statistics and the
\* final count, then the checkpoint file is unlinked and main returns
MainCompletes(p) ==
    /\ ipc[p] = "finished"
    /\ checkpoint' = None
    /\ Exits(p, 0, "completed")
    /\ UNCHANGED <<store, job, line_count, batch, pending, batch_count, stats, runs, locks, faults, runStart, history, lastCommitted, gvars>>

\* main after import_geojson has returned: get_current_count raises, and
\* main exits 1 in its "except Exception"
FinalCountFails(p) ==
    /\ ipc[p] = "finished"
    /\ faults < MaxFaults
    /\ faults' = faults + 1
    /\ Exits(p, 1, "connection lost")
    /\ UNCHANGED <<store, job, line_count, batch, pending, batch_count, stats, runs, locks, checkpoint, runStart, history, lastCommitted, gvars>>

\* the statuses a process ends with when the user interrupts it: 1 when
\* KeyboardInterrupt is raised inside main (sys.exit(1), or the traceback of
\* the handler reading stats before import_geojson has returned it), 130
\* when asyncio.run cancels main and raises KeyboardInterrupt itself
INTERRUPT_STATUS == {1, 130}

\* the user interrupts the process during the try block of main; an open
\* transaction ends without commit
UserAbort(p) ==
    /\ ipc[p] \in {"reading", "executing", "finished"}
    /\ \E code \in INTERRUPT_STATUS : Exits(p, code, "KeyboardInterrupt")
    /\ locks' = [k \in Keys |-> IF locks[k] = p THEN 0 ELSE locks[k]]
    /\ pending' = [pending EXCEPT ![p] = << >>]
    /\ UNCHANGED <<store, job, line_count, batch, batch_count, stats, runs, checkpoint, faults, runStart, history, lastCommitted, gvars>>

\* import_geojson is run again on the same file
Rerun(p) ==
    /\ ipc[p] = "finished"
    /\ runs[p] < MaxRuns
    /\ runs' = [runs EXCEPT ![p] = @ + 1]
    /\ ipc' = [ipc EXCEPT ![p] = "reading"]
    /\ line_count' = [line_count EXCEPT ![p] = 0]
    /\ batch_count' = [batch_count EXCEPT ![p] = 0]
    /\ batch' = [batch EXCEPT ![p] = << >>]
    /\ stats' = [stats EXCEPT ![p] = NewStats(Len(job[p].file))]
    /\ runStart' = [runStart EXCEPT ![p] = store]
    /\ history' = [history EXCEPT ![p] = << >>]
    /\ UNCHANGED <<store, job, exit_status, pending, locks, checkpoint, faults, lastCommitted, gvars>>

\* the geocoding service is not called
GeocodeOff ==
    /\ config = [enable_fallbacks |-> TRUE, default_offset_distance_m |-> 10]
    /\ call = [default_region |-> "ANT", offset_distance |-> None]
    /\ addresses = << >>
    /\ results = << >>
    /\ pc = "off"
    /\ req = None
    /\ components = None
    /\ candidates = << >>
    /\ segment = None
    /\ centroid = None
    /\ interp = None
    /\ point = None
    /\ result = None
    /\ phases = << >>
    /\ queries = 0
    /\ exc = None

\* the ingesters in active run the jobs js on a store without open transaction
IngestStart(active, js) ==
    /\ job = js
    /\ ipc = [p \in Procs |-> IF p \in active THEN "reading" ELSE "off"]
    /\ line_count = [p \in Procs |-> 0]
    /\ batch = [p \in Procs |-> << >>]
    /\ pending = [p \in Procs |-> << >>]
    /\ batch_count = [p \in Procs |-> 0]
    /\ stats = [p \in Procs |-> NewStats(Len(js[p].file))]
    /\ runs = [p \in Procs |-> IF p \in active THEN 1 ELSE 0]
    /\ locks = [k \in Keys |-> 0]
    /\ faults = 0
    /\ runStart = [p \in Procs |-> << >>]
    /\ history = [p \in Procs |-> << >>]
    /\ lastCommitted = [k \in Keys |-> None]
    /\ exit_status = [p \in Procs |-> None]

\* one ingester runs import_geojson on a file, and then again
IngestInit ==
    /\ store = << >>
    /\ checkpoint = None
    /\ GeocodeOff
    /\ \E j \in Jobs(IngestLines, MaxLines, MaxSkip) :
           IngestStart({1}, [p \in Procs |-> IF p = 1 THEN j ELSE IdleJob])

\* the steps of the ingester that runs alone
IngestNext ==
    \E p \in Procs :
        \/ NextBatch(p)
        \/ RunEnds(p)
        \/ WriteRow(p)
        \/ RowTwice(p)
        \/ StoreFault(p)
        \/ Commit(p)
        \/ Rerun(p)

\* one ingester runs import_geojson with batch_size 1 on a file long enough
\* for ten batches, with at most MaxBadLines lines that are not JSON
CheckpointInit ==
    /\ store = << >>
    /\ checkpoint = None
    /\ GeocodeOff
    /\ \E l \in CHECKPOINT_EVERY..MaxCheckpointLines, m \in 0..MaxSkip :
           \E f \in {g \in [1..l -> {LineA, LineX}] : Cardinality({i \in 1..l : g[i] = LineX}) <= MaxBadLines} :
               IngestStart({1}, [p \in Procs |-> IF p = 1 THEN [file |-> f, batch_size |-> 1, skip_lines |-> m]
                                                 ELSE IdleJob])

\* the steps of the ingester that runs up to a checkpoint
CheckpointNext ==
    \E p \in Procs :
        \/ NextBatch(p)
        \/ RunEnds(p)
        \/ WriteRow(p)
        \/ StoreFault(p)
        \/ Commit(p)

\* main: the checkpoint file a run before has left, the answer to the
\* question whether to resume from it, the arguments, and import_geojson
\* called with skip_lines as main sets it
MainInit ==
    /\ store = << >>
    /\ GeocodeOff
    /\ \E j \in Jobs(MainLines, MaxMainLines, MaxSkip), c \in {None, Some(2)}, resume \in BOOLEAN :
           /\ IngestStart({1}, [p \in Procs |-> IF p # 1 THEN IdleJob
                                                ELSE IF IsSome(c) /\ j.skip_lines = 0 /\ resume
                                                THEN [j EXCEPT !.skip_lines = Get(c)] ELSE j])
           /\ checkpoint = c

\* the steps of main
MainNext ==
    \E p \in Procs :
        \/ NextBatch(p)
        \/ RunEnds(p)
        \/ ReaderRaises(p)
        \/ WriteRow(p)
        \/ RowTwice(p)
        \/ StoreFault(p)
        \/ Commit(p)
        \/ MainCompletes(p)
        \/ FinalCountFails(p)
        \/ UserAbort(p)

\* two ingesters run import_geojson at the same time and with the same
\* batch_size, each on its file
UpsertInit ==
    /\ store = << >>
    /\ checkpoint = None
    /\ GeocodeOff
    /\ \E js \in [Procs -> Jobs(UpsertLines, MaxUpsertLines, 0)] :
           /\ js[1].batch_size = js[2].batch_size
           /\ IngestStart(Procs, js)

\* the steps of two ingesters that run together
UpsertNext ==
    \E p \in Procs :
        \/ NextBatch(p)
        \/ RunEnds(p)
        \/ WriteRow(p)
        \/ RowTwice(p)
        \/ DeadlockDetected(p)
        \/ StoreFault(p)
        \/ Commit(p)

----------------------------------------------------------------------------
(* search_streets on its own                                               *)

\* the decimal digits of n
RECURSIVE DigitsOf(_)
DigitsOf(n) == IF n < 10 THEN <<Digits[n + 1]>> ELSE DigitsOf(n \div 10) \o <<Digits[(n % 10) + 1]>>

KR43Lower == <<"k", "r", " ", "4", "3">>

KR4 == <<"K", "R", " ", "4">>

\* KR 43 in another city, KR 43 without longitude, "kr 43", KR 43A and
\* KR 43A in another region
StoreMixed ==
    <<Row(Some("h1"), Some(<<"5", "0">>), Some(KR43), Some("Medellin"), Some("ANT"), Some(10), Some(20)),
      Row(Some("h2"), Some(<<"6", "0">>), Some(KR43), Some("Jardin"), Some("ANT"), Some(30), None),
      Row(Some("h3"), Some(<<"7", "0">>), Some(KR43Lower), Some("Jardin"), Some("ANT"), Some(50), Some(60)),
      Row(Some("h4"), None, Some(KR43A), Some("Jardin"), Some("ANT"), Some(70), Some(80)),
      Row(Some("h5"), Some(<<"9", "0">>), Some(KR43A), Some("Jardin"), Some("CUN"), Some(90), Some(95))>>

\* one row more than the limit of the statements, all of KR 43A in Jardin
StoreLong ==
    [i \in 1..(SEARCH_LIMIT + 1) |->
        Row(None, Some(DigitsOf(i)), Some(KR43A), Some("Jardin"), Some("ANT"), Some(i), Some(i))]

SearchStores == Stores \cup {StoreMixed, StoreLong}

\* the arguments of search_streets
SearchArgs == [street_name : {KR43, KR43A, KR43Lower, KR4}, city : {"Jardin", "Medellin"}, region : {"ANT", "CUN"}]

SearchInit ==
    /\ store \in SearchStores
    /\ req \in {Some(a) : a \in SearchArgs}
    /\ pc = "search"
    /\ config = [enable_fallbacks |-> TRUE, default_offset_distance_m |-> 10]
    /\ call = [default_region |-> "ANT", offset_distance |-> None]
    /\ addresses = << >>
    /\ results = << >>
    /\ components = None
    /\ candidates = << >>
    /\ segment = None
    /\ centroid = None
    /\ interp = None
    /\ point = None
    /\ result = None
    /\ phases = << >>
    /\ queries = 0
    /\ exc = None
    /\ IngestOff

\* search_streets returns
SearchStreetsCall ==
    /\ pc = "search"
    /\ candidates' \in SearchStreets(store, Get(req).street_name, Get(req).city, Get(req).region)
    /\ queries' = SearchQueries(store, Get(req).street_name, Get(req).city, Get(req).region)
    /\ pc' = "searched"
    /\ UNCHANGED <<store, config, call, addresses, results, req, components, segment, centroid,
                   interp, point, result, phases, exc, ivars>>

----------------------------------------------------------------------------
(* interpolate on its own                                                  *)

\* the largest target number written out digit by digit
MaxTarget == 12

NumberLong == [i \in 1..(INT_MAX_STR_DIGITS + 1) |-> "1"]

\* target_number: plain numbers, "57-48", "13 2", "7A", "" and a digit
\* string longer than int() takes
TargetStrings ==
    {DigitsOf(n) : n \in 0..MaxTarget}
    \cup {<<"5", "7", "-", "4", "8">>, <<"1", "3", " ", "2">>, <<"7", "A">>, << >>, NumberLong, NumberHuge}

\* start_number and end_number of a segment: Optional[str]
SegmentNumbers ==
    {None, Some(<< >>), Some(<<"5">>), Some(<<"1", "0">>), Some(<<"1", "-", "0">>), Some(<<"5", "7", "-", "2">>)}

InterpolateSegments ==
    {[street_name |-> Some(KR43), start_number |-> s, end_number |-> e, start_lat |-> 10,
      start_lon |-> 20, end_lat |-> 30, end_lon |-> 40, city |-> Some("Jardin")] : s, e \in SegmentNumbers}

InterpolateInit ==
    /\ store = << >>
    /\ req \in {Some(t) : t \in TargetStrings}
    /\ segment \in {Some(seg) : seg \in InterpolateSegments}
    /\ pc = "interpolate"
    /\ config = [enable_fallbacks |-> TRUE, default_offset_distance_m |-> 10]
    /\ call = [default_region |-> "ANT", offset_distance |-> None]
    /\ addresses = << >>
    /\ results = << >>
    /\ components = None
    /\ candidates = << >>
    /\ centroid = None
    /\ interp = None
    /\ point = None
    /\ result = None
    /\ phases = << >>
    /\ queries = 0
    /\ exc = None
    /\ IngestOff

\* interpolate returns or raises
InterpolateCall ==
    /\ pc = "interpolate"
    /\ pc' = "interpolated"
    /\ IF Interpolate(Get(req), Get(segment)).ok
       THEN interp' = Some(Interpolate(Get(req), Get(segment))) /\ UNCHANGED exc
       ELSE exc' = Some(Interpolate(Get(req), Get(segment)).error) /\ UNCHANGED interp
    /\ UNCHANGED <<store, config, call, addresses, results, req, components, candidates, segment,
                   centroid, point, result, phases, queries, ivars>>

----------------------------------------------------------------------------
(* parse on its own                                                        *)

LowerChar(c) == IF c \in UpperSet THEN LowerCase[CHOOSE i \in 1..26 : UpperCase[i] = c] ELSE c

Lower(s) == [i \in 1..Len(s) |-> LowerChar(s[i])]

\* str.capitalize
Capitalize(s) == [i \in 1..Len(s) |-> IF i = 1 THEN UpperChar(s[i]) ELSE LowerChar(s[i])]

\* upper and lower case letters in turn
Alternate(s) == [i \in 1..Len(s) |-> IF i % 2 = 1 THEN LowerChar(s[i]) ELSE UpperChar(s[i])]

LetterCases(s) == {Upper(s), Lower(s), Capitalize(s), Alternate(s)}

VIA == <<"V", "I", "A">>

\* the street-type forms: the keys of STREET_TYPE_ABBREVIATIONS and the
\* alternatives of PATTERN
StreetTypeForms ==
    {STREET_TYPE_ABBREVIATIONS[k][1] : k \in 1..Len(STREET_TYPE_ABBREVIATIONS)}
    \cup {STREET_TYPE_PATTERN[t] : t \in 1..Len(STREET_TYPE_PATTERN)}

\* what follows the street type: " 43 # 57 49", "43#57" and " 43A # 57B-49"
AddressTails ==
    {<<" ", "4", "3", " ", "#", " ", "5", "7", " ", "4", "9">>,
     <<"4", "3", "#", "5", "7">>,
     <<" ", "4", "3", "A", " ", "#", " ", "5", "7", "B", "-", "4", "9">>}

\* tokens that are no street-type form: "PASAJE", "XYZ", "Blvd"
OtherTokens == {<<"P", "A", "S", "A", "J", "E">>, <<"X", "Y", "Z">>, <<"B", "l", "v", "d">>}

\* street-name tokens: "4", "43", "100", "43A", "5A"
StreetNames == {<<"4">>, <<"4", "3">>, <<"1", "0", "0">>, <<"4", "3", "A">>, <<"5", "A">>}

\* what may follow the last token: nothing, " " and " #"
Endings == {<< >>, <<" ">>, <<" ", "#">>}

\* a street type and a street name and no number: "KR 43", "calle 100 #"
AddressesWithoutNumber ==
    {f \o <<" ">> \o name \o ending : f \in {<<"K", "R">>, <<"c", "a", "l", "l", "e">>}, name \in StreetNames, ending \in Endings}

ParseAddresses ==
    {f \o tail : f \in UNION {LetterCases(form) : form \in StreetTypeForms} \cup OtherTokens, tail \in AddressTails}
    \cup AddressesWithoutNumber

ParseInit ==
    /\ store = << >>
    /\ req \in {Some(a) : a \in ParseAddresses}
    /\ pc = "parse"
    /\ config = [enable_fallbacks |-> TRUE, default_offset_distance_m |-> 10]
    /\ call = [default_region |-> "ANT", offset_distance |-> None]
    /\ addresses = << >>
    /\ results = << >>
    /\ components = None
    /\ candidates = << >>
    /\ segment = None
    /\ centroid = None
    /\ interp = None
    /\ point = None
    /\ result = None
    /\ phases = << >>
    /\ queries = 0
    /\ exc = None
    /\ IngestOff

\* parse returns
ParseCall ==
    /\ pc = "parse"
    /\ pc' = "parsed"
    /\ components' = Parse(req)
    /\ UNCHANGED <<store, config, call, addresses, results, req, candidates, segment, centroid,
                   interp, point, result, phases, queries, exc, ivars>>

----------------------------------------------------------------------------
(* find_segment on its own                                                 *)

\* the longest list of candidates
MaxCandidates == 3

\* Address.number of a candidate
CandidateNumbers == {None, Some(<<"5">>), Some(<<"1", "0">>), Some(<<"1", "0", "A">>), Some(<<"2", "0">>)}

\* the candidates with these numbers: each has coordinates of its own
CandidatesOf(ns) ==
    [i \in 1..Len(ns) |-> Row(None, ns[i], Some(KR43), Some("Jardin"), Some("ANT"), Some(i), Some(i + 10))]

CandidateLists == {CandidatesOf(ns) : ns \in UNION {[1..n -> CandidateNumbers] : n \in 0..MaxCandidates}}

\* target_number
SegmentTargets ==
    {<< >>, <<"S", "N">>, <<"3">>, <<"5">>, <<"7">>, <<"1", "0">>, <<"1", "5", "B">>, <<"2", "0">>, <<"2", "5">>, NumberLong, NumberHuge}

FindSegmentInit ==
    /\ store = << >>
    /\ candidates \in CandidateLists
    /\ req \in {Some(t) : t \in SegmentTargets}
    /\ pc = "find_segment"
    /\ config = [enable_fallbacks |-> TRUE, default_offset_distance_m |-> 10]
    /\ call = [default_region |-> "ANT", offset_distance |-> None]
    /\ addresses = << >>
    /\ results = << >>
    /\ components = None
    /\ segment = None
    /\ centroid = None
    /\ interp = None
    /\ point = None
    /\ result = None
    /\ phases = << >>
    /\ queries = 0
    /\ exc = None
    /\ IngestOff

\* find_segment returns
FindSegmentCall ==
    /\ pc = "find_segment"
    /\ pc' = "found"
    /\ segment' = FindSegment(candidates, Get(req))
    /\ UNCHANGED <<store, config, call, addresses, results, req, components, candidates, centroid,
                   interp, point, result, phases, queries, exc, ivars>>

----------------------------------------------------------------------------
(* get_street_centroid on its own                                          *)

CentroidInit ==
    /\ store \in SearchStores
    /\ req \in {Some(a) : a \in SearchArgs}
    /\ pc = "get_street_centroid"
    /\ config = [enable_fallbacks |-> TRUE, default_offset_distance_m |-> 10]
    /\ call = [default_region |-> "ANT", offset_distance |-> None]
    /\ addresses = << >>
    /\ results = << >>
    /\ components = None
    /\ candidates = << >>
    /\ segment = None
    /\ centroid = None
    /\ interp = None
    /\ point = None
    /\ result = None
    /\ phases = << >>
    /\ queries = 0
    /\ exc = None
    /\ IngestOff

\* get_street_centroid returns: candidates is the list its search returned
GetStreetCentroidCall ==
    /\ pc = "get_street_centroid"
    /\ pc' = "centroid returned"
    /\ candidates' \in SearchStreets(store, Get(req).street_name, Get(req).city, Get(req).region)
    /\ centroid' = StreetCentroid(candidates')
    /\ queries' = SearchQueries(store, Get(req).street_name, Get(req).city, Get(req).region)
    /\ UNCHANGED <<store, config, call, addresses, results, req, components, segment, interp,
                   point, result, phases, exc, ivars>>

vars == <<store, gvars, ivars>>

SpecSearch == SearchInit /\ [][SearchStreetsCall]_vars

SpecInterpolate == InterpolateInit /\ [][InterpolateCall]_vars

SpecParse == ParseInit /\ [][ParseCall]_vars

SpecSegment == FindSegmentInit /\ [][FindSegmentCall]_vars

SpecCentroid == CentroidInit /\ [][GetStreetCentroidCall]_vars

Spec == GeocodeInit /\ [][GeocodeNext]_vars

SpecIngest == IngestInit /\ [][IngestNext]_vars

SpecUpsert == UpsertInit /\ [][UpsertNext]_vars

SpecCheckpoint == CheckpointInit /\ [][CheckpointNext]_vars

SpecMain == MainInit /\ [][MainNext]_vars

----------------------------------------------------------------------------
(* Properties of geocode and batch_geocode                                 *)

\* geocode has returned: its result is in hand or already in the list
Returned == pc \in {"DONE", "idle", "RETURNED"} /\ IsSome(result)

\* C1: the phases a call has run are an initial part of parse, search, match,
\* interpolate, generate, offset (so each ran at most once, in that order);
\* after a parse that found nothing only parse has run and the call has
\* returned; after a search that found nothing only parse and search have
\* run and the call has returned; after a match that found no segment only
\* the first three have run and the call has returned or is in its fallback
PhasesInOrder ==
    /\ \E n \in 0..Len(PhaseOrder) : phases = SubSeq(PhaseOrder, 1, n)
    /\ (Len(phases) >= 1 /\ IsNone(components))
          => phases = SubSeq(PhaseOrder, 1, 1) /\ Returned
    /\ (Len(phases) >= 2 /\ candidates = << >>)
          => phases = SubSeq(PhaseOrder, 1, 2) /\ Returned
    /\ (Len(phases) >= 3 /\ IsNone(segment))
          => phases = SubSeq(PhaseOrder, 1, 3) /\ (Returned \/ pc = "CENTROID")
    /\ pc = "DONE" => IsSome(result)
    /\ (IsSome(result) /\ Get(result).accuracy = "INTERPOLATED") => phases = PhaseOrder

\* C1 witness: in one list a call left by the empty search exit and the next
\* call ran all six phases
SixPhasesAfterAnExit ==
    /\ Len(results) = 1
    /\ results[1].accuracy = "NO_STREET_MATCH"
    /\ pc = "DONE"
    /\ phases = PhaseOrder

\* C2: no exception leaves geocode; a call in which an exception was raised
\* has returned success false, accuracy ERROR, the text of the exception in
\* the message, and no latitude, longitude, side or matched street
ExceptionsBecomeErrorResults ==
    /\ pc # "RAISED"
    /\ IsSome(exc) =>
          /\ Returned
          /\ Get(result).success = FALSE
          /\ Get(result).accuracy = "ERROR"
          /\ Get(result).message = <<"Geocoding error: ", Get(exc)>>
          /\ IsNone(Get(result).latitude) /\ IsNone(Get(result).longitude)
          /\ IsNone(Get(result).side) /\ IsNone(Get(result).matched_street)

\* C2 witness: the store failed its second statement of the search and the
\* call has returned
StoreErrorCaught ==
    pc = "DONE" /\ exc = Some("connection lost") /\ queries = 2 /\ phases = SubSeq(PhaseOrder, 1, 2)

\* C3: when the parser finds nothing in the address of a call, the call
\* returns success false, accuracy PARSE_FAILED, no coordinates, side or
\* matched street, and has executed no statement on the store
ParseFailureExit ==
    (pc = "DONE" /\ IsNone(ParseTable[Get(req).address])) =>
        /\ Get(result).success = FALSE
        /\ Get(result).accuracy = "PARSE_FAILED"
        /\ IsNone(Get(result).latitude) /\ IsNone(Get(result).longitude)
        /\ IsNone(Get(result).side) /\ IsNone(Get(result).matched_street)
        /\ queries = 0
        /\ candidates = << >>

\* C3 witness: the call for "Invalid Address 123" has returned
InvalidAddressReturned ==
    pc = "DONE" /\ Get(req).address = Some(AddrInvalid) /\ store # << >>

\* C4: when the address parses and both statements of the search return no
\* row, the call returns success false, accuracy NO_STREET_MATCH, no
\* coordinates, the parsed components attached, and the matcher has not run
EmptySearchExit ==
    (pc = "DONE" /\ IsSome(components) /\ Len(phases) >= 2 /\ candidates = << >>
       /\ IsNone(exc)) =>
        /\ ExactIds(store, FullStreetName(Get(components)), Get(req).city, Get(req).region) = {}
        /\ FuzzyIds(store, FullStreetName(Get(components)), Get(req).city, Get(req).region) = {}
        /\ Get(result).success = FALSE
        /\ Get(result).accuracy = "NO_STREET_MATCH"
        /\ IsNone(Get(result).latitude) /\ IsNone(Get(result).longitude)
        /\ Get(result).components = components
        /\ components = ParseTable[Get(req).address]
        /\ ~(\E i \in 1..Len(phases) : phases[i] = "MATCH")
        /\ IsNone(segment)

\* C4 witness: on an empty store a call whose address parses has returned
\* NO_STREET_MATCH
EmptyStoreReturned ==
    /\ pc = "DONE" /\ store = << >> /\ IsSome(components)
    /\ Get(result).accuracy = "NO_STREET_MATCH"

\* the rows the search of the current call selects: those of the exact
\* statement, or else those of the ILIKE statement
SelectedIds ==
    LET name == FullStreetName(Get(components))
    IN  IF ExactIds(store, name, Get(req).city, Get(req).region) # {}
        THEN ExactIds(store, name, Get(req).city, Get(req).region)
        ELSE FuzzyIds(store, name, Get(req).city, Get(req).region)

\* C5: when the search returned candidates and the matcher returned no
\* segment, a call that returns without an exception returns, if fallbacks
\* are enabled and the street has a centroid, success true, accuracy
\* STREET_CENTROID, no side and the centroid as coordinates; otherwise
\* success false, accuracy NO_MATCH and no coordinates
NoSegmentExit ==
    (pc = "DONE" /\ Len(phases) >= 3 /\ candidates # << >> /\ IsNone(segment)
       /\ IsNone(exc)) =>
        IF config.enable_fallbacks /\ IsSome(centroid)
        THEN /\ Get(result).success = TRUE
             /\ Get(result).accuracy = "STREET_CENTROID"
             /\ IsNone(Get(result).side)
             /\ Get(result).latitude = Some(Get(centroid)[1])
             /\ Get(result).longitude = Some(Get(centroid)[2])
             /\ \E cands \in OrderLimit(store, SelectedIds) :
                    centroid = StreetCentroid(cands)
        ELSE /\ Get(result).success = FALSE
             /\ Get(result).accuracy = "NO_MATCH"
             /\ IsNone(Get(result).latitude) /\ IsNone(Get(result).longitude)
             /\ IsNone(centroid)
             /\ config.enable_fallbacks =>
                    \E cands \in OrderLimit(store, SelectedIds) :
                        IsNone(StreetCentroid(cands))

\* C5 witness: the house number is longer than int() converts, the street
\* has rows, and the call has returned their centroid
CentroidReturned ==
    /\ pc = "DONE" /\ Get(req).address = Some(AddrLong) /\ candidates # << >>
    /\ IsNone(segment)
    /\ Get(result).accuracy = "STREET_CENTROID"
    /\ Get(result).latitude = Some(Rat(20, 1))

\* C6: when the matcher returned a segment, the call returns success true,
\* accuracy INTERPOLATED, a latitude and a longitude, the side the
\* interpolator computes for the parsed number prefix on that segment, the
\* street name of the segment as matched street, and the parsed components
\* and the segment attached
SegmentExit ==
    (pc = "DONE" /\ IsSome(segment)) =>
        /\ Get(result).success = TRUE
        /\ Get(result).accuracy = "INTERPOLATED"
        /\ IsSome(Get(result).latitude) /\ IsSome(Get(result).longitude)
        /\ Get(result).side =
              Some(Interpolate(Get(ParseTable[Get(req).address]).number_prefix,
                               Get(segment)).side)
        /\ Get(result).matched_street = Get(segment).street_name
        /\ Get(result).components = ParseTable[Get(req).address]
        /\ Get(result).segment = segment
        /\ segment = FindSegment(candidates, Get(components).number_prefix)

\* the same when no phase after the match raised
SegmentExitUnlessRaised ==
    (pc = "DONE" /\ IsSome(segment) /\ IsNone(exc)) =>
        /\ Get(result).success = TRUE
        /\ Get(result).accuracy = "INTERPOLATED"
        /\ IsSome(Get(result).latitude) /\ IsSome(Get(result).longitude)
        /\ Get(result).matched_street = Get(segment).street_name
        /\ Get(result).segment = segment

\* the division of interpolate raised on the segment the matcher returned
\* for a house number of 311 digits, and the call returned ERROR
SegmentThenOverflow ==
    /\ pc = "DONE" /\ IsSome(segment) /\ Get(req).address = Some(AddrHuge)
    /\ exc = Some("integer division result too large for a float")
    /\ Get(result).accuracy = "ERROR"

\* C6 witness: "KR 43 # 75" was matched on the rows of KR 43A and the call
\* has returned INTERPOLATED on the RIGHT side
FuzzyStreetInterpolated ==
    /\ pc = "DONE" /\ IsSome(segment)
    /\ Get(req).address = Some(AddrInterp)
    /\ Get(segment).street_name = Some(KR43A)
    /\ Get(result).side = Some("RIGHT")

\* C7: batch_geocode raises nothing, has at any time one result for each of
\* the first entries of its list, result i being a result geocode may return
\* for entry i with the region of the entry or else the default region, and
\* when it returns it has a result for every entry
BatchInOrder ==
    /\ pc # "RAISED"
    /\ Len(results) <= Len(addresses)
    /\ pc = "RETURNED" => Len(results) = Len(addresses)
    /\ pc \in {"idle", "RETURNED"} =>
          \A i \in 1..Len(results) :
              results[i] \in OutcomeTable[<<store, config,
                  [address         |-> addresses[i].address,
                   city            |-> addresses[i].city,
                   region          |-> IF addresses[i].region = None
                                       THEN call.default_region
                                       ELSE addresses[i].region[1],
                   offset_distance |-> IF call.offset_distance = None
                                       THEN config.default_offset_distance_m
                                       ELSE call.offset_distance[1]]>>]

\* C7 witness: the call for the first entry ended in ERROR, the call for the
\* second, an entry with a region of its own, succeeded, and batch_geocode
\* has returned both
BatchWentOnAfterError ==
    /\ pc = "RETURNED" /\ Len(results) = 2
    /\ results[1].accuracy = "ERROR"
    /\ addresses[2].region = Some("CUN")
    /\ results[2].accuracy = "INTERPOLATED"

----------------------------------------------------------------------------
(* Properties of the ingester                                              *)

\* how many rows of db are r
CountRows(db, r) == Cardinality({i \in 1..Len(db) : db[i] = r})

\* the same rows with the same value columns, each as many times
SameRows(a, b) ==
    \A r \in {a[i] : i \in 1..Len(a)} \cup {b[i] : i \in 1..Len(b)} :
        CountRows(a, r) = CountRows(b, r)

\* a run of the ingester that runs alone has ended after an earlier run on
\* the same file, and no statement failed for a reason the file does not hold
Reingested == ipc[1] = "finished" /\ runs[1] >= 2 /\ faults = 0

\* every valid record of the file carries a fingerprint
AllFingerprinted(file) ==
    \A i \in 1..Len(file) :
        IsSome(ParseGeojsonLine(file[i])) => IsSome(Get(ParseGeojsonLine(file[i])).hash)

LastCommitWins ==
    \A k \in Keys :
        /\ Cardinality(RowsWithKey(store, k)) <= 1
        /\ IsNone(lastCommitted[k]) <=> RowsWithKey(store, k) = {}
        /\ \A i \in RowsWithKey(store, k) : store[i] = Get(lastCommitted[k])

\* the first ingester has committed h1 and holds h2, the second has
\* overwritten the row of h1 and now waits for h2
OverwrittenByTheOther ==
    /\ Waiting(2)
    /\ locks["h2"] = 1
    /\ job[1].file = <<LineA, LineC>>
    /\ job[2].file = <<LineB, LineC>>
    /\ history[1] # << >>
    /\ history[1][1].ok
    /\ \E i \in 1..Len(store) : store[i] = Get(ParseGeojsonLine(LineB))

\* one row after the other, as the statement writes a batch that no other
\* transaction touches
RECURSIVE UpsertRows(_, _)
UpsertRows(db, rows) ==
    IF rows = << >> THEN db
    ELSE UpsertRows(ApplyWrite(db, WriteFor(db, Head(rows))), Tail(rows))

\* the store after the batches of h, those left out whose transaction failed
RECURSIVE StoreAfter(_, _)
StoreAfter(db, h) ==
    IF h = << >> THEN db
    ELSE StoreAfter(IF Head(h).ok THEN UpsertRows(db, Head(h).batch) ELSE db, Tail(h))

\* the records of the failed batches of h
RECURSIVE FailedRecords(_)
FailedRecords(h) ==
    IF h = << >> THEN 0
    ELSE (IF Head(h).ok THEN 0 ELSE Len(Head(h).batch)) + FailedRecords(Tail(h))

\* the records of the batches of h, in order
RECURSIVE Submitted(_)
Submitted(h) == IF h = << >> THEN << >> ELSE Head(h).batch \o Submitted(Tail(h))

\* the valid records of the lines of file after line n
RECURSIVE ValidRecords(_, _)
ValidRecords(file, n) ==
    IF n >= Len(file) THEN << >>
    ELSE ParseGeojsonLine(file[n + 1]) \o ValidRecords(file, n + 1)

\* C10: a batch whose upsert fails leaves no row stored or changed (the
\* store is what the committed batches alone make of it), its size is added
\* to the error count, and the run goes on: when it ends, every valid record
\* of the lines after the skipped ones has been submitted, those after the
\* failed batch too
FailedBatchIsRolledBackAndCounted ==
    ipc[1] # "off" =>
        /\ store = StoreAfter(runStart[1], history[1])
        /\ stats[1].errors = FailedRecords(history[1])
        /\ ipc[1] = "finished" =>
               Submitted(history[1]) = ValidRecords(job[1].file, job[1].skip_lines)

\* the second batch holds the fingerprint h1 twice: it has failed after its
\* first row was written over the row the first batch committed, and the
\* run has gone on to its end
WentOnAfterFailedBatch ==
    /\ ipc[1] = "finished"
    /\ faults = 0
    /\ job[1] = [file |-> <<LineA, LineN, LineB, LineA>>, batch_size |-> 2, skip_lines |-> 0]
    /\ Len(history[1]) = 2
    /\ history[1][1].ok
    /\ ~history[1][2].ok
    /\ stats[1].errors = 2
    /\ Len(store) = 2

\* C11: the checkpoint file is written after every 10th batch and at no
\* other time, and the value written is the number of lines of the file
\* consumed so far, the skipped lines counted
CheckpointIsLinesConsumed ==
    /\ batch_count[1] < CHECKPOINT_EVERY => checkpoint = None
    /\ (ipc[1] = "reading" /\ batch_count[1] > 0 /\ batch_count[1] % CHECKPOINT_EVERY = 0) =>
           checkpoint = Some(line_count[1])

\* the valid records of the lines a + 1 .. b of file, in file order
RECURSIVE RecordsOfLines(_, _, _)
RecordsOfLines(file, a, b) ==
    IF a >= b \/ a >= Len(file) THEN << >>
    ELSE ParseGeojsonLine(file[a + 1]) \o RecordsOfLines(file, a + 1, b)

\* the records the reader has yielded so far in the run
Yielded(p) == Submitted(history[p]) \o (IF ipc[p] = "executing" THEN batch[p] ELSE << >>)

\* the reader of the run has ended: the generator is exhausted or an
\* exception has left it
ReaderEnded(p) ==
    \/ ipc[p] = "finished"
    \/ /\ ipc[p] = "exited"
       /\ Get(exit_status[p]).by \in {"completed", "connection lost", "AttributeError", "InvalidOperation"}

\* C12: with skip = M the reader drops the first M lines of the file and
\* yields every valid record of the remaining lines once and in file
\* order; with M = 0 it drops nothing
ReaderYieldsEveryValidRecord ==
    ReaderEnded(1) =>
        Yielded(1) = RecordsOfLines(job[1].file, job[1].skip_lines, Len(job[1].file))

\* C13: when the run completes the checkpoint file is removed and the
\* process exits 0; when the run ends by a fatal error or a user abort the
\* checkpoint file is left as it is and the process exits 1
ExitContract ==
    [][(ipc[1] # "exited" /\ ipc'[1] = "exited") =>
           IF Get(exit_status'[1]).by = "completed"
           THEN checkpoint' = None /\ Get(exit_status'[1]).code = 0
           ELSE checkpoint' = checkpoint /\ Get(exit_status'[1]).code = 1]_vars

----------------------------------------------------------------------------
(* Properties of search_streets, find_segment, interpolate and parse       *)

\* the smaller of two numbers
Least(a, b) == IF a < b THEN a ELSE b

\* C14: search_streets returns rows of the exact statement whenever that
\* statement selects any, and then runs no second statement; it runs the
\* ILIKE statement only when the exact one selects none, and then returns
\* rows whose street holds the name, letter case ignored; in both tiers
\* every candidate has the city and the region asked for and a latitude and
\* a longitude, and at most 100 candidates are returned: as many as the
\* statement selects up to 100
TwoTierSearch ==
    pc = "searched" =>
        /\ ExactIds(store, Get(req).street_name, Get(req).city, Get(req).region) # {} =>
               /\ queries = 1
               /\ \A i \in 1..Len(candidates) : candidates[i].street = Some(Get(req).street_name)
               /\ Len(candidates) = Least(SEARCH_LIMIT, Cardinality(ExactIds(store, Get(req).street_name, Get(req).city, Get(req).region)))
        /\ ExactIds(store, Get(req).street_name, Get(req).city, Get(req).region) = {} =>
               /\ queries = 2
               /\ \A i \in 1..Len(candidates) : ILikeContains(Get(candidates[i].street), Get(req).street_name)
               /\ Len(candidates) = Least(SEARCH_LIMIT, Cardinality(FuzzyIds(store, Get(req).street_name, Get(req).city, Get(req).region)))
        /\ \A i \in 1..Len(candidates) :
               /\ candidates[i].city = Some(Get(req).city)
               /\ candidates[i].region = Some(Get(req).region)
               /\ IsSome(candidates[i].latitude)
               /\ IsSome(candidates[i].longitude)
        /\ Len(candidates) <= SEARCH_LIMIT
        /\ \A k \in 1..Len(candidates) : \E j \in 1..Len(store) : candidates[k] = store[j]

\* the exact statement has selected no row of a store with 101 rows of
\* KR 43A, and the ILIKE statement has returned 100 of them
FuzzyTierCutAtLimit ==
    /\ pc = "searched"
    /\ store = StoreLong
    /\ Get(req).street_name = KR43
    /\ queries = 2
    /\ Len(candidates) = SEARCH_LIMIT


\* the number interpolate works on: the digits of the string, concatenated
ConcatenatedNumber(number_str) ==
    IF IsNone(number_str) THEN 0 ELSE IntOfDigits(SelectSeq(Get(number_str), IsDigit))

\* the last digit of the string is odd
EndsOdd(str) ==
    /\ SelectSeq(str, IsDigit) # << >>
    /\ SelectSeq(str, IsDigit)[Len(SelectSeq(str, IsDigit))] \in {"1", "3", "5", "7", "9"}

\* C15: whenever interpolate returns, the side is RIGHT exactly when the
\* target number is odd and LEFT exactly when it is even, whatever the
\* segment and the percentage
SideFollowsParity ==
    (pc = "interpolated" /\ IsSome(interp)) =>
        /\ Get(interp).side = "RIGHT" <=> EndsOdd(Get(req))
        /\ Get(interp).side = "LEFT" <=> ~EndsOdd(Get(req))
        /\ Get(interp).is_odd <=> EndsOdd(Get(req))

\* an odd and an even target beyond the end of the segment 5..10, placed at
\* its end
OddTargetClamped ==
    /\ pc = "interpolated"
    /\ Get(req) = <<"1", "1">>
    /\ Get(segment).start_number = Some(<<"5">>) /\ Get(segment).end_number = Some(<<"1", "0">>)
    /\ IsSome(interp) /\ Get(interp).percentage = Rat(1, 1) /\ Get(interp).side = "RIGHT"

\* p is the clamped quotient of t - s and e - s, 0 when s = e
ClampedQuotient(p, t, s, e) ==
    IF s = e THEN p = Rat(0, 1)
    ELSE IF (t - s) * (e - s) <= 0 THEN p = Rat(0, 1)
    ELSE IF Abs(t - s) >= Abs(e - s) THEN p = Rat(1, 1)
    ELSE p.num * Abs(e - s) = p.den * Abs(t - s) /\ p.den > 0

\* C16: for every target string and every segment interpolate returns the
\* quotient (t - s) / (e - s) of the concatenated-digit numbers clamped into
\* [0, 1], 0 when s = e, and the range check of the result never fails
InterpolateReturnsClampedQuotient ==
    pc = "interpolated" =>
        /\ IsSome(interp)
        /\ PercentageInRange(Get(interp).percentage)
        /\ ClampedQuotient(Get(interp).percentage, ConcatenatedNumber(req),
                           ConcatenatedNumber(Get(segment).start_number),
                           ConcatenatedNumber(Get(segment).end_number))

\* the same for the calls that return
ReturnedIsClampedQuotient ==
    (pc = "interpolated" /\ IsSome(interp)) =>
        /\ PercentageInRange(Get(interp).percentage)
        /\ ClampedQuotient(Get(interp).percentage, ConcatenatedNumber(req),
                           ConcatenatedNumber(Get(segment).start_number),
                           ConcatenatedNumber(Get(segment).end_number))

\* interpolate raised on a target of more digits than int() converts
InterpolateRaised ==
    pc = "interpolated" /\ IsNone(interp) /\ exc = Some("ValueError") /\ Get(req) = NumberLong


\* the mapping table of the street types: <<form, canonical abbreviation>>
CanonicalStreetTypes ==
    {<<<<"C", "A", "L", "L", "E">>, <<"C", "L">>>>, <<<<"C", "A">>, <<"C", "L">>>>, <<<<"C", "L">>, <<"C", "L">>>>,
     <<<<"C", "A", "R", "R", "E", "R", "A">>, <<"K", "R">>>>, <<<<"C", "R">>, <<"K", "R">>>>, <<<<"K", "R">>, <<"K", "R">>>>,
     <<<<"A", "V", "E", "N", "I", "D", "A">>, <<"A", "V">>>>, <<<<"A", "V">>, <<"A", "V">>>>,
     <<<<"D", "I", "A", "G", "O", "N", "A", "L">>, <<"D", "G">>>>, <<<<"D", "G">>, <<"D", "G">>>>,
     <<<<"T", "R", "A", "N", "S", "V", "E", "R", "S", "A", "L">>, <<"T", "V">>>>, <<<<"T", "V">>, <<"T", "V">>>>,
     <<<<"C", "I", "R", "C", "U", "L", "A", "R">>, <<"C", "I", "R">>>>, <<<<"C", "I", "R">>, <<"C", "I", "R">>>>,
     <<<<"A", "U", "T", "O", "P", "I", "S", "T", "A">>, <<"A", "U", "T">>>>, <<<<"A", "U", "T">>, <<"A", "U", "T">>>>,
     <<VIA, VIA>>}

\* the address is the form of the table entry, in some letter case, and a
\* street name and number
WrittenWith(address, entry) == \E tail \in AddressTails : Upper(address) = entry[1] \o tail

\* C17: an address made of a street-type form of the mapping table, in any
\* letter case, followed by a valid street name and number parses, with
\* street_type the canonical abbreviation of the form
EveryTableFormParses ==
    pc = "parsed" =>
        \A entry \in CanonicalStreetTypes :
            WrittenWith(Get(req), entry) => IsSome(components) /\ Get(components).street_type = entry[2]

\* the same for the forms PATTERN knows
EveryPatternFormParses ==
    pc = "parsed" =>
        \A entry \in CanonicalStreetTypes :
            (WrittenWith(Get(req), entry) /\ entry[1] # VIA) =>
                IsSome(components) /\ Get(components).street_type = entry[2]

\* "Carrera 43A # 57B-49" parsed to KR
CarreraParsed ==
    /\ pc = "parsed"
    /\ Get(req) = Capitalize(<<"C", "A", "R", "R", "E", "R", "A">>) \o <<" ", "4", "3", "A", " ", "#", " ", "5", "7", "B", "-", "4", "9">>
    /\ IsSome(components) /\ Get(components).street_type = <<"K", "R">>


\* find_segment has returned on a target whose leading integer exists
Found == pc = "found" /\ ParseNumberSimple(req).ok

\* the leading integer of the target and of candidate i
TargetNum == ParseNumberSimple(req).val

CandidateNum(i) == ParseNumberSimple(candidates[i].number).val

ExactHits == {i \in 1..Len(candidates) : CandidateNum(i) = TargetNum}

Below == {i \in 1..Len(candidates) : CandidateNum(i) < TargetNum}

Above == {i \in 1..Len(candidates) : CandidateNum(i) > TargetNum}

\* the segment from candidate i to candidate j
SegmentOf(seg, i, j) ==
    /\ seg.start_number = candidates[i].number /\ seg.end_number = candidates[j].number
    /\ seg.start_lat = Get(candidates[i].latitude) /\ seg.start_lon = Get(candidates[i].longitude)
    /\ seg.end_lat = Get(candidates[j].latitude) /\ seg.end_lon = Get(candidates[j].longitude)
    /\ seg.street_name = candidates[i].street /\ seg.city = candidates[i].city

\* C18: when some candidate's leading integer equals the target's,
\* find_segment returns the degenerate segment at one such candidate, also
\* when a pair of candidates encloses the target
ExactHitIsPreferred ==
    (Found /\ ExactHits # {}) =>
        /\ IsSome(segment)
        /\ \E i \in ExactHits : SegmentOf(Get(segment), i, i)

\* target 10 among 5, 10 and 20: the segment is the point of the second
\* candidate, not the pair 5..10
ExactHitBesidePair ==
    /\ Found /\ Get(req) = <<"1", "0">>
    /\ Len(candidates) = 3
    /\ candidates[1].number = Some(<<"5">>) /\ candidates[2].number = Some(<<"1", "0">>)
    /\ candidates[3].number = Some(<<"2", "0">>)
    /\ IsSome(segment) /\ SegmentOf(Get(segment), 2, 2)

\* the last of the candidates with the greatest number below the target and
\* the first of those with the least number above it: the pair adjacent in
\* the stably sorted list that encloses the target
LowerNeighbour ==
    CHOOSE i \in Below : \A j \in Below : CandidateNum(j) < CandidateNum(i) \/ (CandidateNum(j) = CandidateNum(i) /\ j <= i)

UpperNeighbour ==
    CHOOSE i \in Above : \A j \in Above : CandidateNum(j) > CandidateNum(i) \/ (CandidateNum(j) = CandidateNum(i) /\ j >= i)

\* C19: without an exact hit and with the target between the leading
\* integers of two candidates adjacent in the sorted list, find_segment
\* returns that pair, the lower candidate as start and the higher as end,
\* and int(start) <= t <= int(end)
EnclosingPairIsReturned ==
    (Found /\ ExactHits = {} /\ Below # {} /\ Above # {}) =>
        /\ IsSome(segment)
        /\ SegmentOf(Get(segment), LowerNeighbour, UpperNeighbour)
        /\ ParseNumberSimple(Get(segment).start_number).val <= TargetNum
        /\ TargetNum <= ParseNumberSimple(Get(segment).end_number).val

\* target 7 with the candidates given as 20, 10, 5: the segment is 5..10
PairOfUnsortedCandidates ==
    /\ Found /\ Get(req) = <<"7">>
    /\ Len(candidates) = 3
    /\ candidates[1].number = Some(<<"2", "0">>) /\ candidates[2].number = Some(<<"1", "0">>)
    /\ candidates[3].number = Some(<<"5">>)
    /\ IsSome(segment) /\ SegmentOf(Get(segment), 3, 2)

\* candidate i comes at or before candidate j in the sorted list
SortsBefore(i, j) == CandidateNum(i) < CandidateNum(j) \/ (CandidateNum(i) = CandidateNum(j) /\ i <= j)

\* the candidates next to candidate i in the sorted list
IsNextOf(j, i) ==
    /\ j # i /\ SortsBefore(i, j)
    /\ \A k \in 1..Len(candidates) : (k # i /\ SortsBefore(i, k)) => SortsBefore(j, k)

IsPreviousOf(j, i) == IsNextOf(i, j)

Distance(i) == Abs(CandidateNum(i) - TargetNum)

\* the nearest candidate, the earliest of the sorted list on a tie
IsClosest(i) == \A k \in 1..Len(candidates) : Distance(i) < Distance(k) \/ (Distance(i) = Distance(k) /\ SortsBefore(i, k))

\* C20: with neither an exact hit nor an enclosing pair, find_segment takes
\* the candidate nearest to the target, the earliest sorted index on a tie,
\* and returns (closest, next), or (previous, closest) when the closest is
\* the last; a single candidate gives the degenerate segment at it
NearestFallback ==
    (Found /\ ExactHits = {} /\ (Below = {} \/ Above = {}) /\ Len(candidates) > 0) =>
        /\ IsSome(segment)
        /\ \E i \in 1..Len(candidates) :
            /\ IsClosest(i)
            /\ IF Len(candidates) = 1 THEN SegmentOf(Get(segment), i, i)
               ELSE IF \E j \in 1..Len(candidates) : IsNextOf(j, i)
               THEN \E j \in 1..Len(candidates) : IsNextOf(j, i) /\ SegmentOf(Get(segment), i, j)
               ELSE \E j \in 1..Len(candidates) : IsPreviousOf(j, i) /\ SegmentOf(Get(segment), j, i)

\* target 25 beyond 5, 10, 20: the closest is the last, the segment 10..20
PreviousAndClosest ==
    /\ Found /\ Get(req) = <<"2", "5">>
    /\ Len(candidates) = 3
    /\ candidates[1].number = Some(<<"5">>) /\ candidates[2].number = Some(<<"2", "0">>)
    /\ candidates[3].number = Some(<<"1", "0">>)
    /\ IsSome(segment) /\ SegmentOf(Get(segment), 3, 2)


\* the string holds an integer int() converts: a run of digits, the first
\* one of at most INT_MAX_STR_DIGITS digits
HasParseableInteger(str) ==
    /\ \E i \in 1..Len(str) : IsDigit(str[i])
    /\ Len(FirstDigitRun(str)) <= INT_MAX_STR_DIGITS

\* C21: find_segment returns no segment when the list of candidates is
\* empty, and none when the target string holds no parseable integer,
\* whatever the candidates
NoSegmentWithoutCandidatesOrInteger ==
    pc = "found" =>
        /\ Len(candidates) = 0 => IsNone(segment)
        /\ ~HasParseableInteger(Get(req)) => IsNone(segment)

\* the same, when only a digit run too long for int() counts as unparseable
NoSegmentWithoutCandidatesOrInt ==
    pc = "found" =>
        /\ Len(candidates) = 0 => IsNone(segment)
        /\ ~ParseNumberSimple(req).ok => IsNone(segment)


\* C22: an address whose street-type token is none of the mapping table and
\* whose other tokens match the grammar parses, with street_type that token
\* in upper case
UnknownStreetTypePassesThrough ==
    pc = "parsed" =>
        \A token \in OtherTokens : \A tail \in AddressTails :
            Get(req) = token \o tail => IsSome(components) /\ Get(components).street_type = Upper(token)

\* the token tok stands in s as a whole run of digits with its letter, at p
WholeTokenAt(s, tok, p) ==
    /\ Slice(s, p, p + Len(tok)) = tok
    /\ ~IsDigit(At(s, p - 1))
    /\ ~IsDigit(At(s, p + Len(tok)))

\* a street type, a street name and nothing that could be a number
WithoutNumber(address) == address \in AddressesWithoutNumber

\* C23: parse returns no match for an input with a street type and a street
\* name and no number-prefix token after it; on success street_name and
\* number_prefix are two whole tokens of the input, one after the other,
\* never two parts of one run of digits
NoMatchWithoutNumberPrefix ==
    pc = "parsed" =>
        /\ WithoutNumber(Get(req)) => IsNone(components)
        /\ IsSome(components) =>
            \E p, r \in 1..Len(Get(req)) :
                /\ WholeTokenAt(Upper(Get(req)), Get(components).street_name, p)
                /\ WholeTokenAt(Upper(Get(req)), Get(components).number_prefix, r)
                /\ p + Len(Get(components).street_name) < r


----------------------------------------------------------------------------
(* Properties of get_street_centroid                                       *)

RECURSIVE SumOfLatitudes(_)
SumOfLatitudes(cands) == IF Len(cands) = 0 THEN 0 ELSE Get(cands[1].latitude) + SumOfLatitudes(Tail(cands))

RECURSIVE SumOfLongitudes(_)
SumOfLongitudes(cands) == IF Len(cands) = 0 THEN 0 ELSE Get(cands[1].longitude) + SumOfLongitudes(Tail(cands))

\* C25: get_street_centroid returns the mean of the latitudes and the mean
\* of the longitudes of all the candidates of its search, every candidate
\* counting in both, and returns nothing exactly when the search returns no
\* candidate
CentroidIsMeanOfAllCandidates ==
    pc = "centroid returned" =>
        /\ IsNone(centroid) <=> Len(candidates) = 0
        /\ IsSome(centroid) =>
            /\ Get(centroid)[1] = Rat(SumOfLatitudes(candidates), Len(candidates))
            /\ Get(centroid)[2] = Rat(SumOfLongitudes(candidates), Len(candidates))

\* the same for the candidates without a coordinate of 0
CentroidOfNonZeroCandidates ==
    (/\ pc = "centroid returned"
     /\ \A i \in 1..Len(candidates) : Get(candidates[i].latitude) # 0 /\ Get(candidates[i].longitude) # 0) =>
        /\ IsNone(centroid) <=> Len(candidates) = 0
        /\ IsSome(centroid) =>
            /\ Get(centroid)[1] = Rat(SumOfLatitudes(candidates), Len(candidates))
            /\ Get(centroid)[2] = Rat(SumOfLongitudes(candidates), Len(candidates))

----------------------------------------------------------------------------
(* The reader on malformed lines                                           *)

\* the exceptions that leave parse_geojson_line
UNCAUGHT == {"AttributeError", "InvalidOperation"}

\* C24: parse_geojson_line returns a record or None for every line and
\* never raises: no line the reader has consumed makes it raise, and no
\* ingest run ends by an exception of parse_geojson_line
ParseGeojsonLineNeverRaises ==
    /\ \A n \in (job[1].skip_lines + 1)..line_count[1] : IsNone(ParseGeojsonLineRaises(job[1].file[n]))
    /\ (ipc[1] = "exited" => Get(exit_status[1]).by \notin UNCAUGHT)

\* the lines json.loads rejects are skipped: none of them ends the run
RejectedLinesAreSkipped ==
    \A n \in (job[1].skip_lines + 1)..line_count[1] :
        IsNone(job[1].file[n]) => IsNone(ParseGeojsonLineRaises(job[1].file[n]))

\* a run that has read past a line json.loads rejects
ReadPastRejectedLine ==
    /\ ipc[1] = "finished"
    /\ \E n \in (job[1].skip_lines + 1)..line_count[1] : IsNone(job[1].file[n])

----------------------------------------------------------------------------
(* The exits of geocode after a search that returned candidates            *)

\* parse_number_simple(components.number_prefix) returns: int() converts
\* the first digit run of the number prefix
ConvertibleTarget == TargetTable[Get(components).number_prefix].ok

\* the call has returned, its address parsed and its search returned at
\* least one candidate
ReturnedWithCandidates == pc = "DONE" /\ IsSome(components) /\ candidates # << >>

\* C26: find_segment returns a segment for every non-empty candidate list
\* and every target string: a request whose address parses and whose search
\* returns candidates ends INTERPOLATED or ERROR, never by the no-segment
\* exit, whatever enable_fallbacks
SegmentForEveryTarget ==
    ReturnedWithCandidates =>
        /\ Get(result).accuracy \in {"INTERPOLATED", "ERROR"}
        /\ IsNone(exc) => IsSome(segment)

\* C26 as the code has it: the same for every target int() converts; for a
\* digit run of more than 4300 digits find_segment returns None and the
\* request ends by the no-segment exit
SegmentForEveryConvertibleTarget ==
    ReturnedWithCandidates =>
        IF ConvertibleTarget
        THEN /\ Get(result).accuracy \in {"INTERPOLATED", "ERROR"}
             /\ IsNone(exc) => IsSome(segment) /\ Get(result).accuracy = "INTERPOLATED"
        ELSE /\ IsNone(segment)
             /\ IsNone(exc) => Get(result).accuracy \in {"STREET_CENTROID", "NO_MATCH"}

\* C26 witness: fallbacks are disabled, the house number is above every
\* number of the street, and the call has returned INTERPOLATED on the
\* segment of the nearest fallback
NearestSegmentWithoutFallbacks ==
    /\ ReturnedWithCandidates /\ ConvertibleTarget
    /\ ~config.enable_fallbacks
    /\ \A i \in 1..Len(candidates) :
           AddrNum(candidates[i]) < TargetTable[Get(components).number_prefix].val
    /\ IsSome(segment)
    /\ Get(result).accuracy = "INTERPOLATED"

\* the no-segment exit taken with fallbacks disabled
NoMatchOnLongNumber ==
    /\ ReturnedWithCandidates /\ ~ConvertibleTarget
    /\ ~config.enable_fallbacks
    /\ Get(result).accuracy = "NO_MATCH"

----------------------------------------------------------------------------
(* The shape of the results of geocode                                     *)

\* the accuracy levels geocode produces
PRODUCED == {"PARSE_FAILED", "NO_STREET_MATCH", "NO_MATCH", "STREET_CENTROID", "INTERPOLATED", "ERROR"}

\* the fields of one result agree
ResultAgrees(r) ==
    /\ r.success = TRUE <=> (IsSome(r.latitude) /\ IsSome(r.longitude))
    /\ r.success \in BOOLEAN
    /\ IsSome(r.side) <=> r.accuracy = "INTERPOLATED"
    /\ IsSome(r.side) => Get(r.side) \in {"LEFT", "RIGHT"}
    /\ r.accuracy \in PRODUCED
    /\ IsSome(r.segment) => r.accuracy = "INTERPOLATED"

\* C27: every result geocode returns has success true exactly when it has
\* latitude and longitude, a side exactly when its accuracy is
\* INTERPOLATED, one of the six accuracies PARSE_FAILED, NO_STREET_MATCH,
\* NO_MATCH, STREET_CENTROID, INTERPOLATED, ERROR, and a segment only with
\* INTERPOLATED
EveryResultAgrees ==
    /\ (pc = "DONE" => IsSome(result) /\ ResultAgrees(Get(result)))
    /\ \A i \in 1..Len(results) : ResultAgrees(results[i])

\* C27 witness: a batch whose first call returned INTERPOLATED with a side
\* and a segment, and whose second call has returned the street centroid
\* without side and segment
InterpolatedThenCentroid ==
    /\ pc = "DONE" /\ Len(results) = 1
    /\ results[1].accuracy = "INTERPOLATED" /\ IsSome(results[1].side) /\ IsSome(results[1].segment)
    /\ Get(result).accuracy = "STREET_CENTROID" /\ Get(result).success = TRUE
    /\ IsNone(Get(result).side) /\ IsNone(Get(result).segment)

----------------------------------------------------------------------------
(* The checkpoint against the reader                                       *)

\* s is the beginning of t
IsPrefix(s, t) == Len(s) <= Len(t) /\ SubSeq(t, 1, Len(s)) = s

\* C28: a checkpoint value written is at most the number of lines the
\* reader had consumed, and every valid record on a line after the skipped
\* ones and numbered at most the checkpoint has been submitted in a batch
\* of the run
CheckpointNeverAhead ==
    IsSome(checkpoint) =>
        /\ Get(checkpoint) <= line_count[1]
        /\ IsPrefix(RecordsOfLines(job[1].file, job[1].skip_lines, Get(checkpoint)),
                    Submitted(history[1]))

\* C28 witness: the checkpoint has just been written after the 10th batch
\* of a run that read a line that is not JSON: it is behind the reader
CheckpointBehindReader ==
    /\ ipc[1] = "reading" /\ batch_count[1] = CHECKPOINT_EVERY
    /\ IsSome(checkpoint) /\ Get(checkpoint) < line_count[1]
    /\ Len(Submitted(history[1])) = CHECKPOINT_EVERY

----------------------------------------------------------------------------
(* find_segment: when the nearest fallback is reached                      *)

\* candidates i and j, adjacent in the sorted list, enclose the target
Encloses(i, j) == IsNextOf(j, i) /\ CandidateNum(i) <= TargetNum /\ TargetNum <= CandidateNum(j)

\* neither loop of find_segment has returned on two or more candidates
ReachedFallback ==
    /\ Found /\ Len(candidates) >= 2
    /\ ExactHits = {}
    /\ ~\E i, j \in 1..Len(candidates) : Encloses(i, j)

\* the first candidate of the sorted list
IsFirstSorted(i) == \A k \in 1..Len(candidates) : SortsBefore(i, k)

\* C29: with two or more candidates find_segment reaches the nearest
\* fallback only when the target's integer is strictly below the smallest
\* or strictly above the largest leading integer of the candidates; the
\* segment it returns then has int(start) <= int(end) and both endpoints on
\* the same side of the target, and is the first sorted pair when the target
\* is below the minimum
FallbackOnlyOutsideRange ==
    ReachedFallback =>
        /\ Below = {} \/ Above = {}
        /\ IsSome(segment)
        /\ ParseNumberSimple(Get(segment).start_number).val <= ParseNumberSimple(Get(segment).end_number).val
        /\ Below = {} => /\ TargetNum < ParseNumberSimple(Get(segment).start_number).val
                         /\ \E i, j \in 1..Len(candidates) :
                                IsFirstSorted(i) /\ IsNextOf(j, i) /\ SegmentOf(Get(segment), i, j)
        /\ Above = {} => ParseNumberSimple(Get(segment).end_number).val < TargetNum

\* C29 witness: target 3 below the candidates given as 20, 5, 10: the
\* segment is the first sorted pair 5..10
FirstSortedPairBelowMinimum ==
    /\ ReachedFallback /\ Get(req) = <<"3">>
    /\ Len(candidates) = 3
    /\ candidates[1].number = Some(<<"2", "0">>) /\ candidates[2].number = Some(<<"5">>)
    /\ candidates[3].number = Some(<<"1", "0">>)
    /\ IsSome(segment) /\ SegmentOf(Get(segment), 2, 3)

\* target 10^310 above the candidates 5, 10, 20: the segment is 10..20
LastSortedPairAboveMaximum ==
    /\ ReachedFallback /\ Get(req) = NumberHuge
    /\ Len(candidates) = 3
    /\ candidates[1].number = Some(<<"5">>) /\ candidates[2].number = Some(<<"1", "0">>)
    /\ candidates[3].number = Some(<<"2", "0">>)
    /\ IsSome(segment) /\ SegmentOf(Get(segment), 2, 3)

----------------------------------------------------------------------------
(* The counters of an ingest run                                           *)

\* the records of the committed batches of h
RECURSIVE CommittedRecords(_)
CommittedRecords(h) ==
    IF h = << >> THEN 0
    ELSE (IF Head(h).ok THEN Len(Head(h).batch) ELSE 0) + CommittedRecords(Tail(h))

\* the batches the reader has yielded so far in the run, in order
YieldedBatches(p) ==
    [i \in 1..Len(history[p]) |-> history[p][i].batch]
        \o (IF ipc[p] = "executing" THEN <<batch[p]>> ELSE << >>)

\* C30: after every batch processed = inserted + errors, a batch being
\* counted once, as inserted when its transaction commits and as errors
\* when it is rolled back; updated stays 0; every batch has between 1 and
\* N records, and only the last one of the run may have fewer than N
BatchesCountedOnce ==
    ipc[1] # "off" =>
        /\ ipc[1] \in {"reading", "finished"} =>
               stats[1].processed = stats[1].inserted + stats[1].errors
        /\ ipc[1] = "executing" =>
               stats[1].processed = stats[1].inserted + stats[1].errors + Len(batch[1])
        /\ stats[1].inserted = CommittedRecords(history[1])
        /\ stats[1].errors = FailedRecords(history[1])
        /\ stats[1].updated = 0
        /\ \A i \in 1..Len(YieldedBatches(1)) :
               /\ Len(YieldedBatches(1)[i]) \in 1..job[1].batch_size
               /\ Len(YieldedBatches(1)[i]) < job[1].batch_size =>
                      /\ i = Len(YieldedBatches(1))
                      /\ RecordsOfLines(job[1].file, line_count[1], Len(job[1].file)) = << >>

\* C30 witness: a run of two batches has ended: the first, of N = 2
\* records, was committed, the last, of one record, was rolled back
FullBatchInsertedLastBatchFailed ==
    /\ ipc[1] = "finished"
    /\ job[1].batch_size = 2
    /\ Len(history[1]) = 2
    /\ history[1][1].ok /\ Len(history[1][1].batch) = 2
    /\ ~history[1][2].ok /\ Len(history[1][2].batch) = 1
    /\ stats[1].processed = 3 /\ stats[1].inserted = 2 /\ stats[1].errors = 1

====
